---- MODULE Spec2Model ----
(***************************************************************************)
(* buildH: reconstruction of hydrogens on a united-atom trajectory and     *)
(* accumulation of the C-H order parameters (src/buildH_calcOP.py,         *)
(* src/geometry.py).                                                       *)
(*                                                                         *)
(* A coordinate is an integer number of 1/Scale Angstrom.  The float32     *)
(* arithmetic of the placement rules (helper - atom, normalize,            *)
(* cross_product) is modelled bit for bit; the float64 arithmetic is       *)
(* modelled in fixed point: a unit-vector component, a cosine or a matrix  *)
(* entry is an integer number of 1/Scale, an order parameter is an integer *)
(* number of 1/OPScale.  A not-a-number is the value NaN.                  *)
(* Atom names are sequences of one-character strings, so that              *)
(* str.replace() acts on characters.  Python indices are 0-based; the      *)
(* model keeps 1-based sequence indices and subtracts where the code uses  *)
(* differences of indices.                                                 *)
(***************************************************************************)
EXTENDS Integers, Sequences, FiniteSets, TLC

(***************************************************************************)
(* Bounds of the model.                                                    *)
(***************************************************************************)
MaxFrames == 2
MaxSeed == 2
GridMax == 2

(***************************************************************************)
(* Fixed-point arithmetic.                                                 *)
(***************************************************************************)
Scale == 1000
OPScale == 1000
Cap == 20000
NaN == 2000000000

Abs(x) == IF x < 0 THEN -x ELSE x
Sgn(x) == IF x < 0 THEN -1 ELSE 1
Max2(a, b) == IF a >= b THEN a ELSE b

\* a / b rounded to the nearest integer, b > 0.
RDiv(a, b) == (a + b \div 2) \div b

\* <<(a * b) \div c, (a * b) % c>> for a >= 0, b >= 0, c > 0, taken on the
\* decimal digits of a so that no product overflows (10 * c + 9 * b stays
\* within the integers).
RECURSIVE MulDivMod(_, _, _)
MulDivMod(a, b, c) ==
    IF a = 0 THEN <<0, 0>>
    ELSE LET p == MulDivMod(a \div 10, b, c)
             t == 10 * p[2] + (a % 10) * b
         IN  <<10 * p[1] + t \div c, t % c>>
RECURSIVE SqrtIter(_, _)
SqrtIter(n, x) ==
    LET y == (x + n \div x) \div 2
    IN  IF y >= x THEN x ELSE SqrtIter(n, y)
\* np.sqrt on a non-negative number: the integer square root.
ISqrt(n) == IF n <= 0 THEN 0 ELSE SqrtIter(n, n)
\* The square root rounded to the nearest integer, n below 2^29.
RSqrt(n) == (ISqrt(4 * n) + 1) \div 2

(***************************************************************************)
(* Vectors of 3 elements (numpy 1D-arrays).                                *)
(***************************************************************************)
NaNVec == <<NaN, NaN, NaN>>
IsNaNVec(v) == v[1] = NaN
VSub(a, b) == <<a[1] - b[1], a[2] - b[2], a[3] - b[3]>>
VAdd(a, b) == <<a[1] + b[1], a[2] + b[2], a[3] + b[3]>>
Dot(a, b) == a[1] * b[1] + a[2] * b[2] + a[3] * b[3]
MaxAbs(v) == Max2(Abs(v[1]), Max2(Abs(v[2]), Abs(v[3])))

\* norm(vec): np.sqrt(np.sum(vec**2)).
norm(vec) == ISqrt(Dot(vec, vec))

\* norm(vec) of a vector whose squares would overflow: the norm of vec / k,
\* times k.
BigNorm(vec) ==
    LET k == MaxAbs(vec) \div Cap + 1
    IN  k * norm(<<RDiv(vec[1], k), RDiv(vec[2], k), RDiv(vec[3], k)>>)

\* The vector brought to a magnitude near Cap before its norm is taken, so
\* that the squares neither overflow nor lose their digits.
Rescaled(vec) ==
    LET m == MaxAbs(vec)
    IN  IF m = 0 THEN vec
        ELSE IF m > Cap
        THEN LET k == m \div Cap + 1
             IN  <<RDiv(vec[1], k), RDiv(vec[2], k), RDiv(vec[3], k)>>
        ELSE LET k == Cap \div m
             IN  <<vec[1] * k, vec[2] * k, vec[3] * k>>

\* w / n, in units of 1/Scale.
Over(w, n) ==
    <<RDiv(w[1] * Scale, n), RDiv(w[2] * Scale, n), RDiv(w[3] * Scale, n)>>

\* normalize(vec): vec / norm(vec); a zero vector gives 0/0 = nan in every
\* component (numpy warns and does not raise).
normalize(vec) ==
    IF IsNaNVec(vec) \/ MaxAbs(vec) = 0
    THEN NaNVec
    ELSE Over(Rescaled(vec), norm(Rescaled(vec)))

\* cross_product with the sign of y left as computed.
cross_product_NoSign(A, B) ==
    LET x == (A[2] * B[3]) - (A[3] * B[2])
        y == (A[1] * B[3]) - (A[3] * B[1])
        z == (A[1] * B[2]) - (A[2] * B[1])
    IN  <<x, y, z>>

\* cross_product(A, B): x, y, z as the code computes them, y negated in the
\* returned array.
cross_product(A, B) ==
    LET x == (A[2] * B[3]) - (A[3] * B[2])
        y == (A[1] * B[3]) - (A[3] * B[1])
        z == (A[1] * B[2]) - (A[2] * B[1])
    IN  <<x, -y, z>>

(***************************************************************************)
(* numpy.float32, the dtype of the positions MDAnalysis gives.  A float32  *)
(* is <<m, e>>, the number m * 2^e with 2^23 <= |m| < 2^24, or F32Zero, or *)
(* F32NaN.  Every operation returns the float32 nearest to the exact       *)
(* result, ties to the even mantissa (IEEE 754 binary32), with gradual     *)
(* underflow below 2^-126.  No result reaches 2^128 for the coordinates of *)
(* a trajectory, and infinity is not modelled.                             *)
(***************************************************************************)
Two23 == 8388608
Two24 == 16777216
F32Zero == <<0, 0>>
F32NaN == <<NaN, 0>>
IsF32NaN(x) == x[1] = NaN

RECURSIVE ShiftUp(_, _)
\* m * 2^e, 0 < m < 2^24, written with 2^23 <= m.
ShiftUp(m, e) == IF m >= Two23 THEN <<m, e>> ELSE ShiftUp(2 * m, e - 1)

\* m / 2^k rounded to the nearest integer, ties to even; k >= 0.
RoundShift(m, k) ==
    IF k = 0 THEN m
    ELSE IF k > 30 THEN 0
    ELSE LET q == m \div 2^k
             r == m % 2^k
             h == 2^(k - 1)
         IN  IF r > h \/ (r = h /\ q % 2 = 1) THEN q + 1 ELSE q

\* The float32 nearest to s * m * 2^e, 0 <= m < 2^31: m is rounded leaving
\* out the bits a float32 does not hold, those beyond 24 (Excess) and
\* those below 2^-149.  Where m stands for a number with more bits, it has
\* at least 26 bits and is odd when bits were left out (sticky bit).
F32Round(s, m, e) ==
    LET Excess ==
            IF m < Two24 THEN 0
            ELSE IF m < 2 * Two24 THEN 1 ELSE IF m < 4 * Two24 THEN 2
            ELSE IF m < 8 * Two24 THEN 3 ELSE IF m < 16 * Two24 THEN 4
            ELSE IF m < 32 * Two24 THEN 5 ELSE IF m < 64 * Two24 THEN 6
            ELSE 7
        \* The float32 s * q * 2^ee for 0 <= q <= 2^24.
        Packed(q, ee) ==
            IF q = 0 THEN F32Zero
            ELSE IF q = Two24 THEN <<s * Two23, ee + 1>>
            ELSE LET x == ShiftUp(q, ee) IN <<s * x[1], x[2]>>
        RoundedBy(k) == Packed(RoundShift(m, k), e + k)
    IN  RoundedBy(IF e + Excess < -149 THEN -149 - e ELSE Excess)

\* -a
F32Neg(a) == IF IsF32NaN(a) THEN a ELSE <<-a[1], a[2]>>

\* a + b: the smaller term is aligned on the larger with three more bits,
\* the last of them set when a bit is lost.
F32Add(a, b) ==
    LET Jam(mb8, d) ==
            IF d >= 28 THEN 1
            ELSE LET q == mb8 \div 2^d
                 IN  IF mb8 % 2^d # 0 /\ q % 2 = 0 THEN q + 1 ELSE q
        SumRound(s8, e) == F32Round(Sgn(s8), Abs(s8), e - 3)
        \* ma * 2^e + mb * 2^(e - d), d >= 0.
        AddAligned(ma, mb, d, e) ==
            SumRound(8 * ma + Sgn(mb) * Jam(8 * Abs(mb), d), e)
    IN  IF IsF32NaN(a) \/ IsF32NaN(b) THEN F32NaN
        ELSE IF a[1] = 0 THEN b
        ELSE IF b[1] = 0 THEN a
        ELSE IF a[2] >= b[2] THEN AddAligned(a[1], b[1], a[2] - b[2], a[2])
        ELSE AddAligned(b[1], a[1], b[2] - a[2], b[2])

\* a - b
F32Sub(a, b) == F32Add(a, F32Neg(b))

\* a * b: the product of two 24-bit numbers from those of their 12-bit
\* halves.
F32Mul(a, b) ==
    LET s == Sgn(a[1]) * Sgn(b[1])
        e == a[2] + b[2]
        \* (hi * 2^24 + lo) * 2^e rounded, lo < 2^24 <= 2 * hi.
        WideRound(hi, lo) ==
            F32Round(s, 8 * hi + 2 * (lo \div 4194304)
                        + (IF lo % 4194304 # 0 THEN 1 ELSE 0), e + 21)
        \* (hh * 2^24 + mid * 2^12 + al * bl) * 2^e rounded, low the bits
        \* of it below 2^24 before the carry.
        PartsRound(hh, mid, low) ==
            WideRound(hh + mid \div 4096 + low \div Two24, low % Two24)
        MulRound(ah, al, bh, bl) ==
            PartsRound(ah * bh, ah * bl + al * bh,
                       ((ah * bl + al * bh) % 4096) * 4096 + al * bl)
    IN  IF IsF32NaN(a) \/ IsF32NaN(b) THEN F32NaN
        ELSE IF a[1] = 0 \/ b[1] = 0 THEN F32Zero
        ELSE MulRound(Abs(a[1]) \div 4096, Abs(a[1]) % 4096,
                      Abs(b[1]) \div 4096, Abs(b[1]) % 4096)

\* s * (2 * q + (r > 0)) * 2^e rounded, for the quotient q and the
\* remainder r of a division, qr = <<q, r>>.
QuotRound(s, qr, e) ==
    F32Round(s, 2 * qr[1] + (IF qr[2] # 0 THEN 1 ELSE 0), e)

\* a / b; 0 / 0 is nan.
F32Div(a, b) ==
    IF IsF32NaN(a) \/ IsF32NaN(b) \/ b[1] = 0 THEN F32NaN
    ELSE IF a[1] = 0 THEN F32Zero
    ELSE QuotRound(Sgn(a[1]) * Sgn(b[1]),
                   MulDivMod(4 * Two24, Abs(a[1]), Abs(b[1])),
                   a[2] - b[2] - 27)

RECURSIVE SqrtBits(_, _, _)
\* k more bits of a square root, q the root so far and r what it leaves.
SqrtBits(q, r, k) ==
    IF k = 0 THEN <<q, r>>
    ELSE IF 4 * r >= 4 * q + 1
    THEN SqrtBits(2 * q + 1, 4 * r - 4 * q - 1, k - 1)
    ELSE SqrtBits(2 * q, 4 * r, k - 1)

\* np.sqrt(a)
F32Sqrt(a) ==
    LET \* sqrt(m * 2^24) * 2^e rounded, q0 the integer square root of m.
        SqrtRound(m, q0, e) ==
            QuotRound(1, SqrtBits(q0, m - q0 * q0, 12), e - 1)
    IN  IF IsF32NaN(a) \/ a[1] < 0 THEN F32NaN
        ELSE IF a[1] = 0 THEN F32Zero
        ELSE IF a[2] % 2 = 0
        THEN SqrtRound(4 * a[1], ISqrt(4 * a[1]), (a[2] - 26) \div 2)
        ELSE SqrtRound(2 * a[1], ISqrt(2 * a[1]), (a[2] - 25) \div 2)

\* np.float32 of a coordinate of n / 1000 Angstrom, |n| < 2^24.
F32FromMilli(n) ==
    LET \* The float32 nearest to s * x[1] * 2^x[2] / 1000.
        DecRound(s, x) ==
            QuotRound(s, MulDivMod(4096, x[1], 1000), x[2] - 13)
    IN  IF n = NaN THEN F32NaN
        ELSE IF n = 0 THEN F32Zero
        ELSE DecRound(Sgn(n), ShiftUp(Abs(n), 0))

\* The float32 x, |x| < 2^21, in units of 1/Scale.
F32ToMilli(x) ==
    LET \* q + r / 2^k rounded to the nearest integer, qr = <<q, r>>.
        MilliRound(qr, k) == IF 2 * qr[2] >= 2^k THEN qr[1] + 1 ELSE qr[1]
        \* m * 1000 / 2^k rounded to the nearest integer.
        MilliOf(m, k) ==
            IF k > 51 THEN 0
            ELSE IF k > 27
            THEN MilliRound(MulDivMod(1000, m \div 2^(k - 27), 2^27), 27)
            ELSE MilliRound(MulDivMod(1000, m, 2^k), k)
    IN  IF IsF32NaN(x) THEN NaN
        ELSE IF x[1] = 0 THEN 0
        ELSE Sgn(x[1]) * MilliOf(Abs(x[1]), -x[2])

(***************************************************************************)
(* Vectors of 3 float32 (numpy 1D-arrays of dtype float32).                *)
(***************************************************************************)
IsF32NaNVec(v) == IsF32NaN(v[1]) \/ IsF32NaN(v[2]) \/ IsF32NaN(v[3])
\* A row of the positions of a frame: the coordinates, given in units of
\* 1/Scale Angstrom, as float32.
F32Vec(v) == <<F32FromMilli(v[1]), F32FromMilli(v[2]), F32FromMilli(v[3])>>
\* A float32 vector as it enters the float64 arithmetic, in units of
\* 1/Scale.
Milli(v) ==
    IF IsF32NaNVec(v) THEN NaNVec
    ELSE <<F32ToMilli(v[1]), F32ToMilli(v[2]), F32ToMilli(v[3])>>
\* a - b on float32 arrays.
VSub_f32(a, b) ==
    <<F32Sub(a[1], b[1]), F32Sub(a[2], b[2]), F32Sub(a[3], b[3])>>
\* norm(vec) on a float32 array: np.sqrt(np.sum(vec**2)), the squares
\* added in the order of the elements.
norm_f32(vec) ==
    F32Sqrt(F32Add(F32Add(F32Mul(vec[1], vec[1]), F32Mul(vec[2], vec[2])),
                   F32Mul(vec[3], vec[3])))
\* normalize(vec) on a float32 array: vec / norm(vec); a zero vector gives
\* 0/0 = nan in every element.
normalize_f32(vec) ==
    LET OverNorm(n) == <<F32Div(vec[1], n), F32Div(vec[2], n), F32Div(vec[3], n)>>
    IN  OverNorm(norm_f32(vec))
\* cross_product(A, B) on float32 arrays: every product and every
\* difference is rounded to float32.
cross_product_f32(A, B) ==
    <<F32Sub(F32Mul(A[2], B[3]), F32Mul(A[3], B[2])),
      F32Neg(F32Sub(F32Mul(A[1], B[3]), F32Mul(A[3], B[1]))),
      F32Sub(F32Mul(A[1], B[2]), F32Mul(A[2], B[1]))>>

(***************************************************************************)
(* Angles.  An angle t in [-pi, pi] is the pair (cos t, sin t).            *)
(***************************************************************************)
NaNAngle == [cos |-> NaN, sin |-> NaN]
IsNaNAngle(t) == t.cos = NaN
\* np.arccos(c) for c in [-1, 1]: the angle in [0, pi] whose cosine is c.
ArcCos(c) == [cos |-> c, sin |-> RSqrt(Scale * Scale - c * c)]
NegAngle(t) == IF IsNaNAngle(t) THEN t ELSE [cos |-> t.cos, sin |-> -t.sin]
\* cos(t / 2) = sqrt((1 + cos t) / 2) and |sin(t / 2)| = sqrt((1 - cos t) / 2).
HalfCos(t) == RSqrt((Scale * (Scale + t.cos)) \div 2)
HalfSin(t) == RSqrt((Scale * (Scale - t.cos)) \div 2)
\* t / 2.  Where one of the square roots is of a difference that has lost
\* its digits (an angle near 0 or near pi) that half is taken from
\* sin t = 2 sin(t / 2) cos(t / 2).
HalfAngle(t) ==
    IF IsNaNAngle(t) THEN t
    ELSE IF t.cos > (9 * Scale) \div 10
    THEN [cos |-> HalfCos(t), sin |-> RDiv(t.sin * Scale, 2 * HalfCos(t))]
    ELSE IF t.cos < -((9 * Scale) \div 10)
    THEN [cos |-> RDiv(Abs(t.sin) * Scale, 2 * HalfSin(t)),
          sin |-> Sgn(t.sin) * HalfSin(t)]
    ELSE [cos |-> HalfCos(t), sin |-> Sgn(t.sin) * HalfSin(t)]

LENGTH_CH_BOND == (109 * Scale) \div 100
TETRAHEDRAL_ANGLE == ArcCos(-(Scale \div 3))
\* (2/3) * np.pi
TwoThirdsPi == [cos |-> -(Scale \div 2), sin |-> RSqrt((3 * Scale * Scale) \div 4)]

\* Whether the floating-point quotient np.dot(vec1,vec2)/(norm(vec1)*norm(vec2))
\* of two rays on one line or nearly so, which is 1 or -1 in exact
\* arithmetic or within rounding of it, comes out past 1 in magnitude.  It
\* depends on the rounding of the arithmetic the arrays are computed in
\* (1.0000000000000002 for float64 rays along (-1,-1,-1), below 1 for
\* float32 rays along (-1,-0.5,-0.5); 1.0000001192092896 for float32 rays
\* (-2.591, 4.769, -3.641) and (-2.590, 4.769, -3.641), below 1 for float64
\* ones): both outcomes are possible.
VARIABLE fp_excess

\* The two rays are on one line or so nearly that the float32 cosine of
\* their angle can be rounded past 1 in magnitude.  The dot product, the
\* two norms, their product and the quotient bear at most 9 roundings of
\* relative size 2^-24 before the quotient is itself rounded, and the
\* first float32 above 1 is 1 + 2^-23: the cosine comes out past 1 only
\* where 1 - |cos| is below 8 * 2^-24, that is where the sine of the
\* angle, the norm of the cross product over the product den of the
\* norms, is below 2^-10, within 1/1000.
NearlyParallel(vec1, vec2, den) ==
    BigNorm(cross_product(vec1, vec2)) <= den \div 1000

\* A cosine computed from rounded norms, kept in [-1, 1].
Clamped(c) == IF c > Scale THEN Scale ELSE IF c < -Scale THEN -Scale ELSE c

\* a / (n1 * n2) in units of 1/Scale, for 0 <= a, one division after the
\* other so that no product overflows.
OverNorms(a, n1, n2) == RDiv(RDiv(a, n1) * Scale, n2)

\* np.arccos(costheta) for the rays vec1, vec2 of norms n1, n2: the angle
\* in [0, pi] of cosine np.dot(vec1, vec2) / (n1 * n2); its sine is the
\* norm of the cross product over n1 * n2.
AngleOf(vec1, vec2, n1, n2) ==
    [cos |-> Clamped(Sgn(Dot(vec1, vec2))
                     * OverNorms(Abs(Dot(vec1, vec2)), n1, n2)),
     sin |-> Clamped(OverNorms(BigNorm(cross_product(vec1, vec2)), n1, n2))]

\* calc_angle for the rays vec1 = atom1 - atom2 and vec2 = atom3 - atom2,
\* neither of length zero.
AngleOfRays(excess, vec1, vec2) ==
    IF excess /\ NearlyParallel(vec1, vec2, norm(vec1) * norm(vec2))
    THEN [err |-> "ValueError", angle |-> NaNAngle]
    ELSE [err |-> "none",
          angle |-> AngleOf(vec1, vec2, norm(vec1), norm(vec2))]

\* calc_angle(atom1, atom2, atom3) in an arithmetic where the cosine of
\* rays on one line or nearly so comes out past 1 in magnitude (excess) or
\* not: the valence angle at atom2, or nan when a ray has length zero.  The
\* ValueError of line 146 is raised only when rounding takes the cosine
\* past 1 in magnitude, that is for rays on one line or nearly so, and then
\* only if the arithmetic rounds that way.  The rays are brought to a
\* magnitude near Cap, which leaves their angle as it is.
AngleUnder(excess, atom1, atom2, atom3) ==
    IF atom1 = atom2 \/ atom3 = atom2
    THEN [err |-> "none", angle |-> NaNAngle]
    ELSE AngleOfRays(excess, Rescaled(VSub(atom1, atom2)),
                     Rescaled(VSub(atom3, atom2)))

\* calc_angle(atom1, atom2, atom3) in the arithmetic of the run.
calc_angle(atom1, atom2, atom3) == AngleUnder(fp_excess, atom1, atom2, atom3)

\* (w, x, y, z) = (cos(theta/2), sin(theta/2) * axis) for the half angle h
\* and the unit axis n; w does not involve the axis and stays finite when
\* the axis is nan.
Quaternion(h, n) ==
    IF IsNaNAngle(h) THEN <<NaN, NaN, NaN, NaN>>
    ELSE IF IsNaNVec(n) THEN <<h.cos, NaN, NaN, NaN>>
    ELSE <<h.cos, RDiv(h.sin * n[1], Scale), RDiv(h.sin * n[2], Scale),
           RDiv(h.sin * n[3], Scale)>>

\* vec2quaternion(vec, theta).
vec2quaternion(vec, theta) ==
    Quaternion(HalfAngle(theta), normalize(vec))

\* The rotation matrix of the unit quaternion (w, x, y, z): matrix[i][j],
\* rows i, columns j.
MatrixOf(w, x, y, z) ==
    << <<RDiv(w*w + x*x - y*y - z*z, Scale),
         RDiv(2 * (x*y - w*z), Scale),
         RDiv(2 * (x*z + w*y), Scale)>>,
       <<RDiv(2 * (x*y + w*z), Scale),
         RDiv(w*w - x*x + y*y - z*z, Scale),
         RDiv(2 * (y*z - w*x), Scale)>>,
       <<RDiv(2 * (x*z - w*y), Scale),
         RDiv(2 * (y*z + w*x), Scale),
         RDiv(w*w - x*x - y*y + z*z, Scale)>> >>

\* An element of the quaternion is nan.
IsNaNQuaternion(quaternion) == \E k \in 1..4 : quaternion[k] = NaN

\* calc_rotation_matrix(quaternion): every entry involves x, y or z, so the
\* matrix of a quaternion with a nan axis is nan throughout.
calc_rotation_matrix(quaternion) ==
    IF IsNaNQuaternion(quaternion) THEN <<NaNVec, NaNVec, NaNVec>>
    ELSE MatrixOf(quaternion[1], quaternion[2], quaternion[3], quaternion[4])

\* np.dot(rotation_matrix, vec_to_rotate).
MatVec(m, v) ==
    <<RDiv(Dot(m[1], v), Scale), RDiv(Dot(m[2], v), Scale),
      RDiv(Dot(m[3], v), Scale)>>

\* The rotation of vec_to_rotate by the quaternion, left at its length.
Rotate_NoNormalize(vec_to_rotate, quaternion) ==
    IF IsNaNQuaternion(quaternion) \/ IsNaNVec(vec_to_rotate)
    THEN NaNVec
    ELSE MatVec(calc_rotation_matrix(quaternion), vec_to_rotate)

\* The rotation of vec_to_rotate by the quaternion, normalized.
Rotate(vec_to_rotate, quaternion) ==
    IF IsNaNQuaternion(quaternion) \/ IsNaNVec(vec_to_rotate)
    THEN NaNVec
    ELSE normalize(MatVec(calc_rotation_matrix(quaternion),
                          Rescaled(vec_to_rotate)))

\* apply_rotation(vec_to_rotate, rotation_axis, rad_angle).
apply_rotation(vec_to_rotate, rotation_axis, rad_angle) ==
    Rotate(vec_to_rotate, vec2quaternion(rotation_axis, rad_angle))

\* LENGTH_CH_BOND * unit_vect + atom.
PlaceH(unit_vect, atom) ==
    IF IsNaNVec(unit_vect) THEN NaNVec
    ELSE <<RDiv(LENGTH_CH_BOND * unit_vect[1], Scale) + atom[1],
           RDiv(LENGTH_CH_BOND * unit_vect[2], Scale) + atom[2],
           RDiv(LENGTH_CH_BOND * unit_vect[3], Scale) + atom[3]>>

(***************************************************************************)
(* Hydrogen placement rules.  The positions are float32 and the rules      *)
(* work on them in float32 (helper - atom, normalize, cross_product and    *)
(* their differences) up to apply_rotation, whose quaternion, matrix and   *)
(* result are float64, as is the LENGTH_CH_BOND * unit_vect + atom that    *)
(* follows; get_CH adds its float32 unit vectors to a float64 array.  The  *)
(* float64 part is carried in fixed point.                                 *)
(***************************************************************************)
\* vec_to_rotate turned by -tetrahedral/2 and by +tetrahedral/2 around
\* rotation_axis, placed at the bond length from atom: (hcoor_H1, hcoor_H2).
CH2Rotated(atom, vec_to_rotate, rotation_axis) ==
    <<PlaceH(apply_rotation(vec_to_rotate, rotation_axis,
                            NegAngle(HalfAngle(TETRAHEDRAL_ANGLE))), atom),
      PlaceH(apply_rotation(vec_to_rotate, rotation_axis,
                            HalfAngle(TETRAHEDRAL_ANGLE)), atom)>>

\* <<vec_to_rotate, rotation_axis>> of get_CH2(atom, helper1, helper2) as
\* they enter apply_rotation.  They are computed in float32: v2 and v3 are
\* the unit vectors to the helpers, v4 = normalize(cross_product(v3, v2)),
\* rotation_axis = normalize(v2 - v3) and
\* vec_to_rotate = normalize(cross_product(v4, rotation_axis)).
CH2Frame(atom, helper1, helper2) ==
    LET AroundAxis(v4, rotation_axis) ==
            <<Milli(normalize_f32(cross_product_f32(v4, rotation_axis))),
              Milli(rotation_axis)>>
        OfUnits(v2, v3) ==
            AroundAxis(normalize_f32(cross_product_f32(v3, v2)),
                       normalize_f32(VSub_f32(v2, v3)))
        OfPositions(a, h1, h2) ==
            OfUnits(normalize_f32(VSub_f32(h1, a)),
                    normalize_f32(VSub_f32(h2, a)))
    IN  OfPositions(F32Vec(atom), F32Vec(helper1), F32Vec(helper2))

\* get_CH2 returning the hydrogen rotated by +tetrahedral/2 first.
get_CH2_Swapped(atom, helper1, helper2) ==
    LET Exchanged(Hs) == <<Hs[2], Hs[1]>>
        In(frame) == CH2Rotated(atom, frame[1], frame[2])
    IN  Exchanged(In(CH2Frame(atom, helper1, helper2)))

\* get_CH2(atom, helper1, helper2): (hcoor_H1, hcoor_H2).
get_CH2(atom, helper1, helper2) ==
    LET In(frame) == CH2Rotated(atom, frame[1], frame[2])
    IN  In(CH2Frame(atom, helper1, helper2))

\* A float32 x, |x| <= 2, as it stands in a float64 sum: <<h, l>> is the
\* number h * 2^-24 + l * 2^-48 with 0 <= l < 2^24; bits below 2^-48, which
\* the element of a unit vector along a ray shorter than 10^4 Angstrom does
\* not have, are left out.
Wide(x) ==
    IF x[1] = 0 THEN <<0, 0>>
    ELSE IF x[2] >= -24 THEN <<x[1] * 2^(x[2] + 24), 0>>
    ELSE IF x[2] >= -48
    THEN <<x[1] \div 2^(-24 - x[2]),
           (x[1] % 2^(-24 - x[2])) * 2^(48 + x[2])>>
    ELSE IF x[2] >= -78
    THEN <<(x[1] \div 2^(-48 - x[2])) \div Two24,
           (x[1] \div 2^(-48 - x[2])) % Two24>>
    ELSE <<0, 0>>

\* a + b + c for numbers <<h, l>>.
WideSum(a, b, c) ==
    <<a[1] + b[1] + c[1] + (a[2] + b[2] + c[2]) \div Two24,
      (a[2] + b[2] + c[2]) % Two24>>

RECURSIVE FitShift(_, _)
\* The largest t <= 24 that leaves h * 2^t below 2^14.
FitShift(h, t) ==
    IF t = 24 \/ (h + 1) * 2^(t + 1) > 16384 THEN t
    ELSE FitShift(h, t + 1)

\* unit_vect_H = normalize(atom - v2) for v2 = s / len(helpers) + atom, s
\* the float64 sum of the float32 unit vectors to the helpers, a vector of
\* numbers <<h, l>>: atom - v2 is -s / 3, and 0 / 0 = nan when the unit
\* vectors add up to zero.  The vector -s is brought to elements below 2^15
\* in magnitude, its direction kept, before it is normalized.
CHUnit(s) ==
    LET \* -a as <<h, l>> with 0 <= h, 0 <= l < 2^24, for a below zero.
        WideAbs(a) ==
            IF a[1] >= 0 THEN a
            ELSE IF a[2] = 0 THEN <<-a[1], 0>>
            ELSE <<-a[1] - 1, Two24 - a[2]>>
        \* The number <<h, l>> times 2^t, 0 <= t <= 24, or over k when
        \* t = 0, to the integer below.
        Fitted(a, t, k) == (a[1] * 2^t + a[2] \div 2^(24 - t)) \div k
        NegNarrowed(m) ==
            LET t == FitShift(m, 0)
                k == IF t = 0 THEN m \div 16384 + 1 ELSE 1
                elt(a) == (IF a[1] < 0 THEN 1 ELSE -1)
                          * Fitted(WideAbs(a), t, k)
            IN  <<elt(s[1]), elt(s[2]), elt(s[3])>>
    IN  IF \A i \in 1..3 : s[i] = <<0, 0>> THEN NaNVec
        ELSE normalize(NegNarrowed(Max2(WideAbs(s[1])[1],
                                        Max2(WideAbs(s[2])[1],
                                             WideAbs(s[3])[1]))))

\* get_CH(atom, helper1, helper2, helper3): coor_H.  The unit vectors to
\* the helpers are float32 and are added to a float64 array.
get_CH(atom, helper1, helper2, helper3) ==
    LET OfUnits(u1, u2, u3) ==
            IF IsF32NaNVec(u1) \/ IsF32NaNVec(u2) \/ IsF32NaNVec(u3)
            THEN NaNVec
            ELSE PlaceH(CHUnit([i \in 1..3 |->
                                   WideSum(Wide(u1[i]), Wide(u2[i]),
                                           Wide(u3[i]))]), atom)
        OfPositions(a, h1, h2, h3) ==
            OfUnits(normalize_f32(VSub_f32(h1, a)),
                    normalize_f32(VSub_f32(h2, a)),
                    normalize_f32(VSub_f32(h3, a)))
    IN  OfPositions(F32Vec(atom), F32Vec(helper1), F32Vec(helper2),
                    F32Vec(helper3))

\* get_CH_double_bond(atom, helper1, helper2): coor_H, or the error of
\* calc_angle.  With v2, v3 the float32 rays to the helpers and theta the
\* angle calc_angle gave, rotation_axis = normalize(cross_product(v2, v3))
\* and v3 is rotated by theta around it.
get_CH_double_bond(atom, helper1, helper2) ==
    LET OfRays(v2, v3, theta) ==
            IF theta.err # "none"
            THEN [err |-> theta.err, H |-> NaNVec]
            ELSE [err |-> "none",
                  H |-> PlaceH(apply_rotation(
                                   Milli(v3),
                                   Milli(normalize_f32(
                                             cross_product_f32(v2, v3))),
                                   theta.angle), atom)]
        OfPositions(a, h1, h2, theta) ==
            OfRays(VSub_f32(h1, a), VSub_f32(h2, a), theta)
    IN  OfPositions(F32Vec(atom), F32Vec(helper1), F32Vec(helper2),
                    calc_angle(helper1, atom, helper2))

\* Hr and Hs of a CH3 from He: v4, the unit vector from atom to He, is
\* rotated by +2pi/3 and by -2pi/3 around rotation_axis.
CH3Others(atom, coor_He, v4, rotation_axis) ==
    <<coor_He,
      PlaceH(apply_rotation(v4, rotation_axis, TwoThirdsPi), atom),
      PlaceH(apply_rotation(v4, rotation_axis, NegAngle(TwoThirdsPi)), atom)>>

\* coor_He from the float32 rays v2, v3 to the helpers: v2 rotated by the
\* tetrahedral angle around normalize(cross_product(v3, v2)).
CH3HeOfRays(atom, v2, v3) ==
    PlaceH(apply_rotation(Milli(v2),
                          Milli(normalize_f32(cross_product_f32(v3, v2))),
                          TETRAHEDRAL_ANGLE), atom)

\* get_CH3(atom, helper1, helper2): (coor_He, coor_Hr, coor_Hs).  Once He
\* is placed, rotation_axis = normalize(helper1 - atom) is float32 and
\* v4 = normalize(coor_He - atom) float64.
get_CH3(atom, helper1, helper2) ==
    LET From(v2, coor_He) ==
            CH3Others(atom, coor_He,
                      IF IsNaNVec(coor_He) THEN NaNVec
                      ELSE normalize(VSub(coor_He, atom)),
                      Milli(normalize_f32(v2)))
        OfRays(v2, v3) == From(v2, CH3HeOfRays(atom, v2, v3))
        OfPositions(a, h1, h2) == OfRays(VSub_f32(h1, a), VSub_f32(h2, a))
    IN  OfPositions(F32Vec(atom), F32Vec(helper1), F32Vec(helper2))

(***************************************************************************)
(* Order parameter of one C-H bond.                                        *)
(***************************************************************************)
\* calc_OP taking the angle to the y axis (vec[1]).
calc_OP_YAxis(C, H) ==
    IF IsNaNVec(H) \/ IsNaNVec(C) THEN NaN
    ELSE LET vec == VSub(H, C)
             d2 == Dot(vec, vec)
         IN  IF d2 = 0 THEN NaN
             ELSE LET cos2 == RDiv(vec[2] * vec[2] * OPScale, d2)
                  IN  RDiv(3 * cos2 - OPScale, 2)

\* calc_OP(C, H): S = 0.5 * (3 * cos2 - 1), cos2 = vec[2]**2 / d2, in units
\* of 1/OPScale; d2 = 0 gives 0/0 = nan.
calc_OP(C, H) ==
    IF IsNaNVec(H) \/ IsNaNVec(C) THEN NaN
    ELSE LET vec == VSub(H, C)
             d2 == Dot(vec, vec)
         IN  IF d2 = 0 THEN NaN
             ELSE LET cos2 == RDiv(vec[3] * vec[3] * OPScale, d2)
                  IN  RDiv(3 * cos2 - OPScale, 2)

(***************************************************************************)
(* Inputs: topologies, recipes (dic_lipids.py), order-parameter definition *)
(* tables and trajectories.                                                *)
(***************************************************************************)
MaxLipids == 2

aC1 == <<"C", "1">>
aC2 == <<"C", "2">>
aC3 == <<"C", "3">>
aC4 == <<"C", "4">>
aC2C == <<"C", "2", "C">>
aOW == <<"O", "W">>

\* str(k) for a hydrogen index.
Str(k) == CASE k = 1 -> "1" [] k = 2 -> "2" [] k = 3 -> "3" [] OTHER -> "4"

\* Residue layouts: the atom names of one residue, in file order.
LayoutLipid == <<aC1, aC2, aC3, aC4>>
LayoutPermuted == <<aC2, aC1, aC3, aC4>>
LayoutShort == <<aC1, aC2, aC3>>
LayoutFurtherC == <<aC1, aC2C, aC3, aC4>>
Lipid(layout) == [resname |-> "POPC", names |-> layout]
Water == [resname |-> "SOL", names |-> <<aOW>>]

RECURSIVE AtomsOf(_, _)
\* The atoms of a list of residues, residue k having resindex k and resnum k.
AtomsOf(residues, k) ==
    IF k > Len(residues) THEN <<>>
    ELSE [j \in 1..Len(residues[k].names) |->
            [name |-> residues[k].names[j], resname |-> residues[k].resname,
             resnum |-> k, resindex |-> k]]
         \o AtomsOf(residues, k + 1)
Topology(residues) == AtomsOf(residues, 1)

\* A recipe: the dictionary of dic_lipids.py, its carbon keys in insertion order.
Recipe(keys, tup) == [resname |-> "POPC", keys |-> keys, tup |-> tup]
RecipeCH2 == Recipe(<<aC2, aC3>>,
                    (aC2 :> <<"CH2", aC1, aC3>>) @@ (aC3 :> <<"CH2", aC2, aC4>>))
RecipeCH3 == Recipe(<<aC1, aC3>>,
                    (aC1 :> <<"CH3", aC2, aC3>>)
                    @@ (aC3 :> <<"CHdoublebond", aC2, aC4>>))
RecipeCH == Recipe(<<aC2>>, (aC2 :> <<"CH", aC1, aC3, aC4>>))
RecipeCH2Arity3 == Recipe(<<aC2>>, (aC2 :> <<"CH2", aC1, aC3, aC4>>))
RecipeCHArity2 == Recipe(<<aC2>>, (aC2 :> <<"CH", aC1, aC3>>))
RecipeWrongKind == Recipe(<<aC2>>, (aC2 :> <<"CH4", aC1, aC3>>))
RecipeWrongKindLater == Recipe(<<aC2, aC3>>,
                               (aC2 :> <<"CH2", aC1, aC3>>)
                               @@ (aC3 :> <<"CH4", aC2, aC4>>))
RecipeWrongKindArity3 == Recipe(<<aC2>>, (aC2 :> <<"CH1", aC1, aC3, aC4>>))
RecipeFurtherC == Recipe(<<aC2C>>, (aC2C :> <<"CH2", aC1, aC3>>))

\* A label of the definition file: the carbon and the hydrogen named after it.
Label(c, h, k) == <<c, h \o <<Str(k)>>>>
H1n == <<"H", "1">>
H2n == <<"H", "2">>
H3n == <<"H", "3">>
H4n == <<"H", "4">>
TableCH2 == <<Label(aC2, H2n, 1), Label(aC2, H2n, 2),
              Label(aC3, H3n, 1), Label(aC3, H3n, 2)>>
TableCH3 == <<Label(aC1, H1n, 1), Label(aC1, H1n, 2), Label(aC1, H1n, 3),
              Label(aC3, H3n, 1)>>
TableCH == <<Label(aC2, H2n, 1)>>
TableCH2One == <<Label(aC2, H2n, 1), Label(aC2, H2n, 2)>>
\* Hydrogens of C2C as the code names them, and as replacing only the
\* leading letter names them.
TableFurtherCAll == <<Label(aC2C, <<"H", "2", "H">>, 1),
                      Label(aC2C, <<"H", "2", "H">>, 2)>>
TableFurtherCLead == <<Label(aC2C, <<"H", "2", "C">>, 1),
                       Label(aC2C, <<"H", "2", "C">>, 2)>>

\* The definition tables tried with a recipe: complete, empty, one label
\* short, one label more.
Variants(table) ==
    {table, <<>>, SubSeq(table, 1, Len(table) - 1),
     table \o <<Label(aC4, H4n, 1)>>}

Uniform(n) == [k \in 1..n |-> Lipid(LayoutLipid)]

Systems ==
    UNION {
      { [residues |-> Uniform(n), recipe |-> RecipeCH2, tables |-> Variants(TableCH2)],
        [residues |-> Uniform(n), recipe |-> RecipeCH3, tables |-> Variants(TableCH3)],
        [residues |-> Uniform(n), recipe |-> RecipeCH, tables |-> Variants(TableCH)],
        [residues |-> Uniform(n), recipe |-> RecipeCH2Arity3, tables |-> {TableCH2One}],
        [residues |-> Uniform(n), recipe |-> RecipeCHArity2, tables |-> {TableCH}],
        [residues |-> Uniform(n), recipe |-> RecipeWrongKind, tables |-> {TableCH}],
        [residues |-> Uniform(n), recipe |-> RecipeWrongKindLater,
         tables |-> {TableCH2}],
        [residues |-> Uniform(n), recipe |-> RecipeWrongKindArity3,
         tables |-> {TableCH}],
        [residues |-> [k \in 1..n |-> Lipid(LayoutFurtherC)],
         recipe |-> RecipeFurtherC,
         tables |-> {TableFurtherCAll, TableFurtherCLead}]
      } : n \in 1..MaxLipids }
    \cup
    { [residues |-> <<Water>> \o Uniform(MaxLipids), recipe |-> RecipeCH2,
       tables |-> {TableCH2}],
      [residues |-> <<Lipid(LayoutLipid), Water, Lipid(LayoutLipid)>>,
       recipe |-> RecipeCH3, tables |-> {TableCH3}],
      [residues |-> <<Lipid(LayoutLipid), Lipid(LayoutPermuted)>>,
       recipe |-> RecipeCH2, tables |-> {TableCH2}],
      [residues |-> <<Lipid(LayoutLipid), Lipid(LayoutShort)>>,
       recipe |-> RecipeCH2, tables |-> {TableCH2}],
      [residues |-> <<Lipid(LayoutLipid), Lipid(LayoutShort), Water>>,
       recipe |-> RecipeCH2, tables |-> {TableCH2}] }

\* Coordinates of atom i (1-based index in the universe) in frame f of the
\* trajectory numbered sd, in 1/Scale Angstrom.  Trajectory 0 has all the
\* atoms on one line.  Trajectory -1 has every four atoms in a row nearly
\* on one line and not on it, each four 1.5 Angstrom above the four
\* before: in frame 1 the third atom is at the origin and the second and
\* the fourth are on the same side of it, 0.001 Angstrom off the line
\* through the other two; in the later frames they are on opposite sides
\* of it.
Coor(sd, f, i) ==
    IF sd = 0
    THEN <<15 * i * (Scale \div 10), 0, 0>>
    ELSE IF sd = -1
    THEN VAdd((IF f = 1
               THEN << <<-10000, -10001, 0>>, <<19999, 20000, 0>>,
                       <<0, 0, 0>>, <<20000, 20001, 0>> >>
               ELSE << <<10012, 10013, -9966>>, <<5006, 5007, -4983>>,
                       <<0, 0, 0>>, <<-5009, -5010, 4986>> >>)
                  [((i - 1) % 4) + 1],
              <<0, 0, 15 * ((i - 1) \div 4) * (Scale \div 10)>>)
    ELSE <<15 * i * (Scale \div 10),
           (9 * (i % 2) + 2 * ((i * sd) % 3)) * (Scale \div 10),
           (((4 * i * f + 3 * sd * i + i * i) % 11) - 5) * (Scale \div 10)>>

(***************************************************************************)
(* State.                                                                  *)
(***************************************************************************)
VARIABLES
    universe_woH,             \* the atoms of the universe without hydrogens
    dic_lipid,                \* the recipe
    dic_atname2genericname,   \* the labels of the definition file, in order
    n_frames,                 \* number of frames of the trajectory
    seed,                     \* which trajectory
    pc,                       \* position of each run in __main__
    dic_OP,                   \* label -> list of order parameters, per run
    op_residue,               \* label -> resindex each value was computed on
    raised,                   \* the exception that stopped the run, or "none"
    last_build,               \* the last carbon built on: kind, positions,
                              \* Hs_coor and the H_name given to each hydrogen
    ts_frame,                 \* frame of the trajectory under analysis (1-based)
    atom_ix,                  \* position of the loop over universe_woH.atoms
    newrows,                  \* rows of the dataframe with hydrogens
    new_atom_num,             \* counter numbering the rows
    universe_wH,              \* positions of the universe with hydrogens
    row_index_coor_array,     \* row of universe_wH written next
    newxtc,                   \* frames written to the output trajectory
    dic_lipids_with_indexes,  \* the recipe expanded with offsets
    res_k,                    \* position of the loop over first lipid atoms
    c_j,                      \* position of the loop over carbon names
    report,                   \* label -> the statistics written to the output
    kin,                      \* inputs of a kernel function
    kout                      \* the function applied and its result

inputs == <<universe_woH, dic_lipid, dic_atname2genericname, n_frames, seed,
            fp_excess>>
slowvars == <<atom_ix, newrows, new_atom_num, universe_wH,
              row_index_coor_array, newxtc>>
fastvars == <<dic_lipids_with_indexes, res_k, c_j>>
kernelvars == <<kin, kout>>
vars == <<inputs, pc, dic_OP, op_residue, raised, last_build, ts_frame,
          slowvars, fastvars, report, kernelvars>>

M == "materializing"
F == "fast"
Strategies == {M, F}

NbAtoms == Len(universe_woH)
\* atom.position / ts[ix] in frame f, for the 1-based atom index i.
Position(f, i) == Coor(seed, f, i)

SetMin(S) == CHOOSE x \in S : \A y \in S : x <= y
\* sel("name X")[0] on the atoms of residue r: the index of the first atom
\* of that name, 0 when the selection is empty ([0] raises IndexError).
SelName(r, name) ==
    LET S == {j \in 1..NbAtoms : universe_woH[j].resindex = r
                                  /\ universe_woH[j].name = name}
    IN  IF S = {} THEN 0 ELSE SetMin(S)

\* What a driver call gives: the exception raised or the tuple of hydrogens,
\* with the positions of the carbon and of its first two helpers.
Raise(e) == [err |-> e, Hs |-> <<>>, used |-> <<>>]
Return(Hs, used) == [err |-> "none", Hs |-> Hs, used |-> used]
\* The 1-tuple of get_CH_double_bond, or the exception it raised.
ReturnCH(r, used) ==
    IF r.err # "none" THEN Raise(r.err) ELSE Return(<<r.H>>, used)

\* buildHs_on_1C(atom, dic_lipid) for the atom of index i in frame f.
buildHs_on_1C(i, f) ==
    LET atom == universe_woH[i]
        t == dic_lipid.tup[atom.name]
        typeofH2build == t[1]
        sel(name) == SelName(atom.resindex, name)
    IN  IF Len(t) # 3 /\ Len(t) # 4 THEN Raise("ValueError")
        ELSE IF sel(t[2]) = 0 \/ sel(t[3]) = 0 THEN Raise("IndexError")
        ELSE LET helper1_coor == Position(f, sel(t[2]))
                 helper2_coor == Position(f, sel(t[3]))
                 used == <<Position(f, i), helper1_coor, helper2_coor>>
             IN  IF typeofH2build = "CH2"
                 THEN Return(get_CH2(Position(f, i), helper1_coor, helper2_coor), used)
                 ELSE IF typeofH2build = "CH"
                 THEN IF Len(t) = 3 THEN Raise("UnboundLocalError")
                      ELSE IF sel(t[4]) = 0 THEN Raise("IndexError")
                      ELSE Return(<<get_CH(Position(f, i), helper1_coor,
                                           helper2_coor,
                                           Position(f, sel(t[4])))>>,
                                  Append(used, Position(f, sel(t[4]))))
                 ELSE IF typeofH2build = "CHdoublebond"
                 THEN ReturnCH(get_CH_double_bond(Position(f, i), helper1_coor,
                                                  helper2_coor), used)
                 ELSE IF typeofH2build = "CH3"
                 THEN Return(get_CH3(Position(f, i), helper1_coor, helper2_coor), used)
                 ELSE Raise("UserWarning")

\* The unpacking of dic_lipids_with_indexes[Cname]: the offsets of the
\* carbon and of its helpers, or the ValueError of a tuple that has
\* neither 6 nor 8 elements.
Unpack(t) ==
    IF Len(t) = 6
    THEN [err |-> "none", Cname_ix |-> t[4], helper1_ix |-> t[5],
          helper2_ix |-> t[6], helper3_ix |-> 0]
    ELSE IF Len(t) = 8
    THEN [err |-> "none", Cname_ix |-> t[5], helper1_ix |-> t[6],
          helper2_ix |-> t[7], helper3_ix |-> t[8]]
    ELSE [err |-> "ValueError", Cname_ix |-> 0, helper1_ix |-> 0,
          helper2_ix |-> 0, helper3_ix |-> 0]

\* ts[ix] for the 1-based index i = ix + 1: the row ix of the positions.  A
\* negative ix counts from the last row (ts[-1] is the last atom); IndexError
\* beyond the last atom and below -NbAtoms.
InRange(i) == i >= 1 - NbAtoms /\ i <= NbAtoms
\* The 1-based index of the atom ts[ix] reads.
Row(i) == IF i < 1 THEN i + NbAtoms ELSE i

\* fast_buildHs_on_1C(dic_lipids_with_indexes, ts, Cname, ix_first_atom_res)
\* in frame f; ix_first_atom_res is the 1-based index of the first atom.
fast_buildHs_on_1C(dic, f, Cname, ix_first_atom_res) ==
    LET t == dic[Cname]
        u == Unpack(t)
        typeofH2build == t[1]
        c == Row(u.Cname_ix + ix_first_atom_res)
        h1 == Row(u.helper1_ix + ix_first_atom_res)
        h2 == Row(u.helper2_ix + ix_first_atom_res)
        h3 == Row(u.helper3_ix + ix_first_atom_res)
        used == <<Position(f, c), Position(f, h1), Position(f, h2)>>
    IN  IF u.err # "none" THEN Raise(u.err)
        ELSE IF \/ ~InRange(u.Cname_ix + ix_first_atom_res)
                \/ ~InRange(u.helper1_ix + ix_first_atom_res)
                \/ ~InRange(u.helper2_ix + ix_first_atom_res)
        THEN Raise("IndexError")
        ELSE IF typeofH2build = "CH2"
        THEN Return(get_CH2(Position(f, c), Position(f, h1), Position(f, h2)), used)
        ELSE IF typeofH2build = "CH"
        THEN IF Len(t) = 6 THEN Raise("UnboundLocalError")
             ELSE IF ~InRange(u.helper3_ix + ix_first_atom_res)
             THEN Raise("IndexError")
             ELSE Return(<<get_CH(Position(f, c), Position(f, h1),
                                  Position(f, h2), Position(f, h3))>>,
                         Append(used, Position(f, h3)))
        ELSE IF typeofH2build = "CHdoublebond"
        THEN ReturnCH(get_CH_double_bond(Position(f, c), Position(f, h1),
                                         Position(f, h2)), used)
        ELSE IF typeofH2build = "CH3"
        THEN Return(get_CH3(Position(f, c), Position(f, h1), Position(f, h2)), used)
        ELSE Raise("UserWarning")

\* get_indexes(atom, universe_woH, dic_lipid) for the atom of index i: the
\* indexes of its 2 or 3 helpers.
get_indexes(i) ==
    LET atom == universe_woH[i]
        t == dic_lipid.tup[atom.name]
        sel(name) == SelName(atom.resindex, name)
    IN  IF Len(t) # 3 /\ Len(t) # 4 THEN [err |-> "ValueError", ix |-> <<>>]
        ELSE IF sel(t[2]) = 0 \/ sel(t[3]) = 0
        THEN [err |-> "IndexError", ix |-> <<>>]
        ELSE IF t[1] = "CH"
        THEN IF Len(t) = 3 THEN [err |-> "UnboundLocalError", ix |-> <<>>]
             ELSE IF sel(t[4]) = 0 THEN [err |-> "IndexError", ix |-> <<>>]
             ELSE [err |-> "none", ix |-> <<sel(t[2]), sel(t[3]), sel(t[4])>>]
        ELSE [err |-> "none", ix |-> <<sel(t[2]), sel(t[3])>>]

\* The atoms of the selection "resname X", in index order.
LipidAtoms == {j \in 1..NbAtoms : universe_woH[j].resname = dic_lipid.resname}
\* first_lipid_residue.atoms[0].ix, as a 1-based index.
FirstAtomIx ==
    SetMin({j \in 1..NbAtoms :
              universe_woH[j].resindex = universe_woH[SetMin(LipidAtoms)].resindex})
first_atom_name == universe_woH[FirstAtomIx].name

RECURSIVE SortedSeq(_)
SortedSeq(S) == IF S = {} THEN <<>>
                ELSE <<SetMin(S)>> \o SortedSeq(S \ {SetMin(S)})

RECURSIVE AddIndexes(_, _, _)
\* The loop over the atoms selected for one carbon name (lines 792-815):
\* each appends the offsets of the carbon and of its helpers to the tuple.
\* The kind is read from the first element of the recipe's tuple before
\* get_indexes is called (line 794): an empty tuple gives IndexError.
AddIndexes(Catoms, k, acc) ==
    IF k > Len(Catoms) \/ acc.err # "none" THEN acc
    ELSE LET g == get_indexes(Catoms[k])
             off == [m \in 1..Len(g.ix) |-> g.ix[m] - FirstAtomIx]
         IN  IF dic_lipid.tup[universe_woH[Catoms[k]].name] = <<>>
             THEN [err |-> "IndexError", t |-> acc.t]
             ELSE IF g.err # "none" THEN [err |-> g.err, t |-> acc.t]
             ELSE AddIndexes(Catoms, k + 1,
                    [err |-> "none",
                     t |-> acc.t \o <<Catoms[k] - FirstAtomIx>> \o off])

\* make_dic_lipids_with_indexes(universe_woH, dic_lipid): the expanded
\* dictionary, or the exception raised while building it.
make_dic_lipids_with_indexes ==
    IF LipidAtoms = {}
    THEN [err |-> "IndexError", dic |-> <<>>]
    ELSE LET resnum_1st_lipid == universe_woH[FirstAtomIx].resnum
             Sel(Cname) == SortedSeq({j \in 1..NbAtoms :
                              universe_woH[j].resnum = resnum_1st_lipid
                              /\ universe_woH[j].name = Cname})
             entry == [Cname \in DOMAIN dic_lipid.tup |->
                         AddIndexes(Sel(Cname), 1,
                                    [err |-> "none", t |-> dic_lipid.tup[Cname]])]
             bad == {k \in 1..Len(dic_lipid.keys) :
                       entry[dic_lipid.keys[k]].err # "none"}
         IN  IF bad # {}
             THEN [err |-> entry[dic_lipid.keys[SetMin(bad)]].err, dic |-> <<>>]
             ELSE [err |-> "none",
                   dic |-> [Cname \in DOMAIN dic_lipid.tup |-> entry[Cname].t]]

\* The atoms of the selection "resname X and name first_atom_name".
FirstLipidAtoms ==
    SortedSeq({j \in LipidAtoms : universe_woH[j].name = first_atom_name})

\* atom.name.replace("C", "H") + str(i+1), k = i+1.
HName(name, k) ==
    [j \in 1..Len(name) |-> IF name[j] = "C" THEN "H" ELSE name[j]]
    \o <<Str(k)>>

(***************************************************************************)
(* Statistics of the output file (lines 1101-1106).                        *)
(***************************************************************************)
RECURSIVE Sum(_)
Sum(a) == IF a = <<>> THEN 0 ELSE Head(a) + Sum(Tail(a))
RECURSIVE SumSq(_)
SumSq(a) == IF a = <<>> THEN 0 ELSE Head(a) * Head(a) + SumSq(Tail(a))
HasNaN(a) == \E k \in 1..Len(a) : a[k] = NaN
RECURSIVE GCD(_, _)
GCD(a, b) == IF b = 0 THEN a ELSE GCD(b, a % b)
\* The fraction num/den in lowest terms, den > 0.
Frac(num, den) ==
    LET g == GCD(Abs(num), den)
    IN  [num |-> num \div g, den |-> den \div g]
NaNFrac == [num |-> NaN, den |-> 1]

\* The mean taken as the sum over the number of frames.
Mean_ByFrames(a) ==
    IF a = <<>> \/ HasNaN(a) THEN NaNFrac ELSE Frac(Sum(a), n_frames)

\* a.mean(): the sum over the count, kept as a fraction of 1/OPScale; nan
\* for an empty array or an array holding a nan.
Mean(a) ==
    IF a = <<>> \/ HasNaN(a) THEN NaNFrac ELSE Frac(Sum(a), Len(a))

\* a.std(): the population standard deviation sqrt(mean(|x - mean|^2)),
\* in 1/OPScale.
Std(a) ==
    IF a = <<>> \/ HasNaN(a) THEN NaN
    ELSE RDiv(ISqrt(Len(a) * SumSq(a) - Sum(a) * Sum(a)), Len(a))

\* One line of the output file: a.mean(), a.std() and the literal 0.0.
ReportLine(a) == [OP_mean |-> Mean(a), OP_stddev |-> Std(a), OP_stem |-> 0]

Keys(table) == {table[k] : k \in 1..Len(table)}

(***************************************************************************)
(* Initial state: the inputs are read, dic_OP holds an empty list for each *)
(* label of the definition file (lines 1042-1045).                         *)
(***************************************************************************)
InitRun(sys, table, nf, sd) ==
    /\ universe_woH = Topology(sys.residues)
    /\ dic_lipid = sys.recipe
    /\ dic_atname2genericname = table
    /\ n_frames = nf
    /\ seed = sd
    /\ pc = [s \in Strategies |-> IF s = M THEN "prepare" ELSE "make_dic"]
    /\ dic_OP = [s \in Strategies |-> [key \in Keys(table) |-> <<>>]]
    /\ op_residue = [s \in Strategies |-> [key \in Keys(table) |-> <<>>]]
    /\ raised = [s \in Strategies |-> "none"]
    /\ last_build = [s \in Strategies |->
                       [kind |-> "none", carbon |-> <<>>, used |-> <<>>,
                        Hs |-> <<>>, names |-> <<>>]]
    /\ ts_frame = [s \in Strategies |-> 1]
    /\ atom_ix = 1
    /\ newrows = <<>>
    /\ new_atom_num = 1
    /\ universe_wH = <<>>
    /\ row_index_coor_array = 0
    /\ newxtc = <<>>
    /\ dic_lipids_with_indexes = <<>>
    /\ res_k = 1
    /\ c_j = 1
    /\ report = [s \in Strategies |-> <<>>]

Init ==
    /\ \E sys \in Systems : \E table \in sys.tables :
         \E nf \in 1..MaxFrames : \E sd \in -1..MaxSeed :
            InitRun(sys, table, nf, sd)
    /\ fp_excess \in BOOLEAN
    /\ kin = <<>>
    /\ kout = [fn |-> "none", val |-> 0]

(***************************************************************************)
(* The materializing run: build_all_Hs_calc_OP is called once to make the  *)
(* dataframe with hydrogens (pc = "prepare"), then once per frame          *)
(* (pc = "loop").                                                          *)
(***************************************************************************)
\* The loop over Hs_coor (lines 597-615), from the k-th hydrogen on.  st
\* holds what the call has written so far and the exception raised, if any.
RECURSIVE BuildLoopHs(_, _, _, _, _, _)
BuildLoopHs(k, Hs, i, f, inloop, st) ==
    IF k > Len(Hs) \/ st.err # "none" THEN st
    ELSE LET atom == universe_woH[i]
             H_name == HName(atom.name, k)
             key == <<atom.name, H_name>>
             \* "if dic_OP:" is false for None and for an empty dictionary
             withOP == inloop /\ DOMAIN st.dic # {}
         IN  IF withOP /\ key \notin DOMAIN st.dic
             THEN [st EXCEPT !.err = "KeyError", !.names = Append(@, H_name)]
             ELSE LET s1 == IF withOP
                            THEN [st EXCEPT
                                    !.dic[key] = Append(@, calc_OP(Position(f, i), Hs[k])),
                                    !.res[key] = Append(@, atom.resindex)]
                            ELSE st
                      s2 == IF ~inloop
                            THEN [s1 EXCEPT
                                    !.rows = Append(@, [atnum |-> s1.num,
                                                        atname |-> H_name,
                                                        resname |-> atom.resname,
                                                        resnum |-> atom.resnum,
                                                        coor |-> Hs[k]]),
                                    !.num = @ + 1]
                            ELSE s1
                      s3 == IF inloop
                            THEN IF s2.row + 1 > Len(s2.wH)
                                 THEN [s2 EXCEPT !.err = "IndexError"]
                                 ELSE [s2 EXCEPT !.wH[s2.row + 1] = Hs[k],
                                                 !.row = @ + 1]
                            ELSE s2
                  IN  BuildLoopHs(k + 1, Hs, i, f, inloop,
                                  [s3 EXCEPT !.names = Append(@, H_name)])

\* The end of the iteration: st2 is what the call has written, b what
\* buildHs_on_1C returned, built whether hydrogens were built on the atom.
BuildAtomEnd(atom, built, b, st2) ==
    /\ dic_OP' = [dic_OP EXCEPT ![M] = st2.dic]
    /\ op_residue' = [op_residue EXCEPT ![M] = st2.res]
    /\ newrows' = st2.rows
    /\ new_atom_num' = st2.num
    /\ universe_wH' = st2.wH
    /\ row_index_coor_array' = st2.row
    /\ last_build' = IF built
                     THEN [last_build EXCEPT
                             ![M] = [kind |-> dic_lipid.tup[atom.name][1],
                                     carbon |-> atom.name,
                                     used |-> b.used, Hs |-> b.Hs,
                                     names |-> st2.names]]
                     ELSE last_build
    /\ raised' = [raised EXCEPT ![M] = st2.err]
    /\ pc' = IF st2.err # "none" THEN [pc EXCEPT ![M] = "error"] ELSE pc
    /\ atom_ix' = IF st2.err # "none" THEN atom_ix ELSE atom_ix + 1

\* Lines 584-615: the hydrogens of the atom, when it is a carbon of the
\* recipe in a residue of the target type (build); st1 is what the call has
\* written up to the atom itself.
BuildAtomHs(atom, f, inloop, build, b, st1) ==
    BuildAtomEnd(atom, build /\ b.err = "none", b,
                 IF ~build THEN st1
                 ELSE IF b.err # "none" THEN [st1 EXCEPT !.err = b.err]
                 ELSE BuildLoopHs(1, b.Hs, atom_ix, f, inloop, st1))

\* The heavy atom written without advancing row_index_coor_array: its first
\* hydrogen then takes its row.
BuildAtomHeavy_RowKept(atom, f, inloop, st0) ==
    IF inloop
    THEN IF st0.row + 1 > Len(st0.wH)
         THEN [st0 EXCEPT !.err = "IndexError"]
         ELSE [st0 EXCEPT !.wH[st0.row + 1] = Position(f, atom_ix)]
    ELSE [st0 EXCEPT
            !.rows = Append(@, [atnum |-> st0.num,
                                atname |-> atom.name,
                                resname |-> atom.resname,
                                resnum |-> atom.resnum,
                                coor |-> Position(f, atom_ix)]),
            !.num = @ + 1]

\* Lines 573-582: the heavy atom itself is written to the dataframe
\* (pc = "prepare") or to the universe with hydrogens (pc = "loop").
BuildAtomHeavy(atom, f, inloop, st0) ==
    IF inloop
    THEN IF st0.row + 1 > Len(st0.wH)
         THEN [st0 EXCEPT !.err = "IndexError"]
         ELSE [st0 EXCEPT !.wH[st0.row + 1] = Position(f, atom_ix),
                          !.row = @ + 1]
    ELSE [st0 EXCEPT
            !.rows = Append(@, [atnum |-> st0.num,
                                atname |-> atom.name,
                                resname |-> atom.resname,
                                resnum |-> atom.resnum,
                                coor |-> Position(f, atom_ix)]),
            !.num = @ + 1]

\* The atom is a carbon of the recipe in a residue of the target type and
\* nothing was raised so far.
BuildAtomGo(atom, f, inloop, st1) ==
    BuildAtomHs(atom, f, inloop,
                /\ atom.name \in DOMAIN dic_lipid.tup
                /\ atom.resname = dic_lipid.resname
                /\ st1.err = "none",
                buildHs_on_1C(atom_ix, f), st1)

\* One iteration of "for atom in universe_woH.atoms" (lines 571-615).
BuildAtom ==
    /\ pc[M] \in {"prepare", "loop"}
    /\ atom_ix <= NbAtoms
    /\ LET inloop == pc[M] = "loop"
           f == IF inloop THEN ts_frame[M] ELSE 1
           atom == universe_woH[atom_ix]
           first == atom_ix = 1
           st0 == [dic |-> dic_OP[M], res |-> op_residue[M],
                   rows |-> IF first /\ ~inloop THEN <<>> ELSE newrows,
                   num |-> IF first /\ ~inloop THEN 1 ELSE new_atom_num,
                   wH |-> universe_wH,
                   row |-> IF first /\ inloop THEN 0 ELSE row_index_coor_array,
                   names |-> <<>>, err |-> "none"]
       IN  BuildAtomGo(atom, f, inloop, BuildAtomHeavy(atom, f, inloop, st0))
    /\ UNCHANGED <<inputs, ts_frame, newxtc, fastvars, report, kernelvars>>

\* A coordinate as the pdb file holds it ("{x:>8.3f}"): 3 decimals.
PdbCoor(x) == IF x = NaN THEN NaN ELSE (RDiv(x * 1000, Scale) * Scale) \div 1000

\* The pdb is written and read back, but the first frame is not written to
\* the output trajectory.
WritePdb_NoFirstFrame ==
    /\ pc[M] = "prepare"
    /\ atom_ix > NbAtoms
    /\ universe_wH' = [k \in 1..Len(newrows) |->
                         <<PdbCoor(newrows[k].coor[1]), PdbCoor(newrows[k].coor[2]),
                           PdbCoor(newrows[k].coor[3])>>]
    /\ newxtc' = <<>>
    /\ pc' = [pc EXCEPT ![M] = "loop"]
    /\ ts_frame' = [ts_frame EXCEPT ![M] = 1]
    /\ atom_ix' = 1
    /\ UNCHANGED <<inputs, dic_OP, op_residue, raised, last_build, newrows,
                   new_atom_num, row_index_coor_array, fastvars, report,
                   kernelvars>>

\* Lines 1057-1067: the dataframe is written as a pdb, the universe with
\* hydrogens is read from it and written as the first frame of the xtc.
WritePdb ==
    /\ pc[M] = "prepare"
    /\ atom_ix > NbAtoms
    /\ universe_wH' = [k \in 1..Len(newrows) |->
                         <<PdbCoor(newrows[k].coor[1]), PdbCoor(newrows[k].coor[2]),
                           PdbCoor(newrows[k].coor[3])>>]
    /\ newxtc' = <<universe_wH'>>
    /\ pc' = [pc EXCEPT ![M] = "loop"]
    /\ ts_frame' = [ts_frame EXCEPT ![M] = 1]
    /\ atom_ix' = 1
    /\ UNCHANGED <<inputs, dic_OP, op_residue, raised, last_build, newrows,
                   new_atom_num, row_index_coor_array, fastvars, report,
                   kernelvars>>

\* Line 1077 and the advance of "for ts in universe_woH.trajectory".
WriteFrame ==
    /\ pc[M] = "loop"
    /\ atom_ix > NbAtoms
    /\ newxtc' = Append(newxtc, universe_wH)
    /\ IF ts_frame[M] < n_frames
       THEN /\ ts_frame' = [ts_frame EXCEPT ![M] = @ + 1]
            /\ atom_ix' = 1
            /\ pc' = pc
       ELSE /\ pc' = [pc EXCEPT ![M] = "report"]
            /\ UNCHANGED <<ts_frame, atom_ix>>
    /\ UNCHANGED <<inputs, dic_OP, op_residue, raised, last_build, newrows,
                   new_atom_num, universe_wH, row_index_coor_array, fastvars,
                   report, kernelvars>>

(***************************************************************************)
(* The statistics-only run: fast_build_all_Hs_calc_OP.  It is started on   *)
(* the same inputs once the materializing run has ended.                   *)
(***************************************************************************)
MEnded == pc[M] \in {"done", "error"}

\* Lines 854-861.
MakeDic ==
    /\ MEnded
    /\ pc[F] = "make_dic"
    /\ LET r == make_dic_lipids_with_indexes
       IN  IF r.err # "none"
           THEN /\ raised' = [raised EXCEPT ![F] = r.err]
                /\ pc' = [pc EXCEPT ![F] = "error"]
                /\ UNCHANGED dic_lipids_with_indexes
           ELSE /\ dic_lipids_with_indexes' = r.dic
                /\ pc' = [pc EXCEPT ![F] = "loop"]
                /\ UNCHANGED raised
    /\ UNCHANGED <<inputs, dic_OP, op_residue, last_build, ts_frame, slowvars,
                   res_k, c_j, report, kernelvars>>

\* The loop over Hs_coor inserting each value at the head of its list.
RECURSIVE FastLoopHs_Prepend(_, _, _, _, _, _, _)
FastLoopHs_Prepend(k, Hs, Cname, c, f, r, st) ==
    IF k > Len(Hs) \/ st.err # "none" THEN st
    ELSE LET H_name == HName(Cname, k)
             key == <<Cname, H_name>>
         IN  IF key \notin DOMAIN st.dic
             THEN [st EXCEPT !.err = "KeyError", !.names = Append(@, H_name)]
             ELSE FastLoopHs_Prepend(k + 1, Hs, Cname, c, f, r,
                    [st EXCEPT
                       !.dic[key] = <<calc_OP(Position(f, c), Hs[k])>> \o @,
                       !.res[key] = <<r>> \o @,
                       !.names = Append(@, H_name)])

\* The loop over Hs_coor (lines 920-928), from the k-th hydrogen on.
RECURSIVE FastLoopHs(_, _, _, _, _, _, _)
FastLoopHs(k, Hs, Cname, c, f, r, st) ==
    IF k > Len(Hs) \/ st.err # "none" THEN st
    ELSE LET H_name == HName(Cname, k)
             key == <<Cname, H_name>>
         IN  IF key \notin DOMAIN st.dic
             THEN [st EXCEPT !.err = "KeyError", !.names = Append(@, H_name)]
             ELSE FastLoopHs(k + 1, Hs, Cname, c, f, r,
                    [st EXCEPT
                       !.dic[key] = Append(@, calc_OP(Position(f, c), Hs[k])),
                       !.res[key] = Append(@, r),
                       !.names = Append(@, H_name)])

\* The end of the iteration: st1 is what the loop over Hs_coor has written,
\* b what fast_buildHs_on_1C returned, built whether it returned a tuple.
FastCarbonEnd(f, Cname, built, b, st1) ==
    LET lastC == c_j = Len(dic_lipid.keys)
        lastR == res_k = Len(FirstLipidAtoms)
        lastF == f = n_frames
    IN  /\ dic_OP' = [dic_OP EXCEPT ![F] = st1.dic]
        /\ op_residue' = [op_residue EXCEPT ![F] = st1.res]
        /\ raised' = [raised EXCEPT ![F] = st1.err]
        /\ last_build' = IF built
                         THEN [last_build EXCEPT
                                 ![F] = [kind |-> dic_lipids_with_indexes[Cname][1],
                                         carbon |-> Cname,
                                         used |-> b.used, Hs |-> b.Hs,
                                         names |-> st1.names]]
                         ELSE last_build
        /\ IF st1.err # "none"
           THEN /\ pc' = [pc EXCEPT ![F] = "error"]
                /\ UNCHANGED <<c_j, res_k, ts_frame>>
           ELSE /\ c_j' = IF lastC THEN 1 ELSE c_j + 1
                /\ res_k' = IF ~lastC THEN res_k
                            ELSE IF lastR THEN 1 ELSE res_k + 1
                /\ ts_frame' = IF lastC /\ lastR /\ ~lastF
                               THEN [ts_frame EXCEPT ![F] = @ + 1]
                               ELSE ts_frame
                /\ pc' = IF lastC /\ lastR /\ lastF
                         THEN [pc EXCEPT ![F] = "report"] ELSE pc

\* Lines 889-928 for the carbon Cname of the residue whose first atom is
\* ix_first_atom_res: u is the unpacked tuple of offsets, b what
\* fast_buildHs_on_1C returned.
FastCarbonHs(f, Cname, ix_first_atom_res, u, b, st0) ==
    LET c == u.Cname_ix + ix_first_atom_res
    IN  FastCarbonEnd(f, Cname,
                      u.err = "none" /\ InRange(c) /\ b.err = "none", b,
                      IF u.err # "none" THEN [st0 EXCEPT !.err = u.err]
                      ELSE IF ~InRange(c) THEN [st0 EXCEPT !.err = "IndexError"]
                      ELSE IF b.err # "none" THEN [st0 EXCEPT !.err = b.err]
                      ELSE FastLoopHs(1, b.Hs, Cname, Row(c), f,
                                      universe_woH[ix_first_atom_res].resindex,
                                      st0))

\* One iteration of "for Cname in dic_lipids_with_indexes.keys()"
\* (lines 887-928) and the advance of the three loops around it.
FastCarbon ==
    /\ MEnded
    /\ pc[F] = "loop"
    /\ FastCarbonHs(ts_frame[F], dic_lipid.keys[c_j], FirstLipidAtoms[res_k],
                    Unpack(dic_lipids_with_indexes[dic_lipid.keys[c_j]]),
                    fast_buildHs_on_1C(dic_lipids_with_indexes, ts_frame[F],
                                       dic_lipid.keys[c_j],
                                       FirstLipidAtoms[res_k]),
                    [dic |-> dic_OP[F], res |-> op_residue[F], names |-> <<>>,
                     err |-> "none"])
    /\ UNCHANGED <<inputs, slowvars, dic_lipids_with_indexes, report,
                   kernelvars>>

\* Lines 1098-1106: one line of statistics per label of the definition file.
Report(s) ==
    /\ pc[s] = "report"
    /\ s = F => MEnded
    /\ report' = [report EXCEPT
                    ![s] = [key \in Keys(dic_atname2genericname) |->
                              ReportLine(dic_OP[s][key])]]
    /\ pc' = [pc EXCEPT ![s] = "done"]
    /\ UNCHANGED <<inputs, dic_OP, op_residue, raised, last_build, ts_frame,
                   slowvars, fastvars, kernelvars>>

Next ==
    \/ BuildAtom
    \/ WritePdb
    \/ WriteFrame
    \/ MakeDic
    \/ FastCarbon
    \/ Report(M)
    \/ Report(F)

Spec == Init /\ [][Next]_vars

(***************************************************************************)
(* The kernel functions applied to inputs drawn from a grid of integer     *)
(* coordinates.                                                            *)
(***************************************************************************)
Grid == (-GridMax)..GridMax
GridVec == Grid \X Grid \X Grid

InitKernel ==
    /\ InitRun([residues |-> Uniform(1), recipe |-> RecipeCH2], TableCH2, 1, 1)
    /\ fp_excess = FALSE
    /\ kin \in GridVec \X GridVec
    /\ kout = [fn |-> "none", val |-> 0]

runvars == <<inputs, pc, dic_OP, op_residue, raised, last_build, ts_frame,
             slowvars, fastvars, report>>

\* cross_product(A, B) on kin = <<A, B>>.
ApplyCrossProduct ==
    /\ kout.fn = "none"
    /\ kout' = [fn |-> "cross_product", val |-> cross_product(kin[1], kin[2])]
    /\ UNCHANGED <<runvars, kin>>

\* calc_OP(C, H) on kin = <<C, H>>.
ApplyCalcOP ==
    /\ kout.fn = "none"
    /\ kout' = [fn |-> "calc_OP", val |-> calc_OP(kin[1], kin[2])]
    /\ UNCHANGED <<runvars, kin>>

\* A grid vector as a position or a vector of coordinates: steps of half
\* an Angstrom.
GridCoor(v) ==
    <<v[1] * (Scale \div 2), v[2] * (Scale \div 2), v[3] * (Scale \div 2)>>

\* The angles the placement rules rotate by.
Angles ==
    {TETRAHEDRAL_ANGLE, HalfAngle(TETRAHEDRAL_ANGLE),
     NegAngle(HalfAngle(TETRAHEDRAL_ANGLE)), NegAngle(TwoThirdsPi)}

\* apply_rotation(apply_rotation(v, axis, t), axis, -t) on kin = <<v, axis>>.
ApplyRotationTwice ==
    /\ kout.fn = "none"
    /\ \E t \in Angles :
          kout' = [fn |-> "apply_rotation", angle |-> t,
                   val |-> apply_rotation(
                             apply_rotation(GridCoor(kin[1]), kin[2], t),
                             kin[2], NegAngle(t))]
    /\ UNCHANGED <<runvars, kin>>

\* The central atoms calc_angle is tried with.
CentralAtoms == {<<0, 0, 0>>, <<1, 0, -1>>}

\* calc_angle(atom1, atom2, atom3) on atom1, atom3 = kin, in an arithmetic
\* that rounds the cosine of rays on one line either way: kout.val is
\* calc_angle under the rounding fp_excess the call is made with.
ApplyCalcAngle ==
    /\ kout.fn = "none"
    /\ \E atom2 \in CentralAtoms : \E excess \in BOOLEAN :
          /\ fp_excess' = excess
          /\ kout' = [fn |-> "calc_angle", atom2 |-> atom2,
                      val |-> AngleUnder(excess, GridCoor(kin[1]),
                                         GridCoor(atom2), GridCoor(kin[2]))]
    /\ UNCHANGED <<universe_woH, dic_lipid, dic_atname2genericname, n_frames,
                   seed, pc, dic_OP, op_residue, raised, last_build, ts_frame,
                   slowvars, fastvars, report, kin>>

NextKernel ==
    \/ ApplyCrossProduct
    \/ ApplyCalcOP
    \/ ApplyRotationTwice
    \/ ApplyCalcAngle

SpecKernel == InitKernel /\ [][NextKernel]_vars

(***************************************************************************)
(* Properties.                                                             *)
(***************************************************************************)
Ended(s) == pc[s] \in {"done", "error"}
BothEnded == Ended(M) /\ Ended(F)
\* The residue instances of the target residue type.
LipidResidues == {universe_woH[j].resindex : j \in LipidAtoms}

\* C1: on the same inputs the materializing run and the statistics-only run
\* leave the same list of order parameters under every label of dic_OP, and
\* one stops with an exception exactly when the other does.
C1_StrategiesAgree ==
    BothEnded =>
        /\ (raised[M] # "none") <=> (raised[F] # "none")
        /\ (raised[M] = "none" /\ raised[F] = "none") => dic_OP[M] = dic_OP[F]

\* The sequence the store holds at the address (label, residue instance):
\* dic_OP is keyed by the label alone (lines 606 and 928).
SeriesAt(s, key, r) == dic_OP[s][key]

\* C2: once a run is over, every label the recipe built on holds, for each
\* residue instance, a sequence of exactly one value per frame.
C2_PerResidueSeries ==
    \A s \in Strategies :
        pc[s] = "done" =>
            \A key \in DOMAIN dic_OP[s] :
                dic_OP[s][key] # <<>> =>
                    \A r \in LipidResidues :
                        Len(SeriesAt(s, key, r)) = n_frames

IsPrefix(a, b) == Len(a) <= Len(b) /\ SubSeq(b, 1, Len(a)) = a

\* C3: dic_OP starts with an empty list under every label and every step of
\* either run leaves the labels as they are and each list a prefix of what
\* it becomes.
C3_AppendOnly ==
    /\ \A s \in Strategies : \A key \in DOMAIN dic_OP[s] : dic_OP[s][key] = <<>>
    /\ [][\A s \in Strategies :
            /\ DOMAIN dic_OP'[s] = DOMAIN dic_OP[s]
            /\ \A key \in DOMAIN dic_OP[s] :
                  IsPrefix(dic_OP[s][key], dic_OP'[s][key])]_vars

C3_Witness ==
    \E key \in DOMAIN dic_OP[M] :
        Len(dic_OP[M][key]) >= 2 /\ Len(dic_OP[F][key]) >= 2

\* The values of a label computed on the residue instance r, in the order
\* in which they were appended.
ResidueValues(s, key, r) ==
    LET idx == SortedSeq({i \in 1..Len(dic_OP[s][key]) :
                            op_residue[s][key][i] = r})
    IN  [j \in 1..Len(idx) |-> dic_OP[s][key][idx[j]]]

\* The arithmetic mean of a list of values, as a fraction.
Average(a) ==
    IF a = <<>> \/ (\E k \in 1..Len(a) : a[k] = NaN) THEN NaNFrac
    ELSE Frac(Sum(a), Len(a))
RECURSIVE FracSum(_)
FracSum(fs) ==
    IF fs = <<>> THEN [num |-> 0, den |-> 1]
    ELSE LET t == FracSum(Tail(fs))
         IN  Frac(Head(fs).num * t.den + t.num * Head(fs).den,
                  Head(fs).den * t.den)
FracHasNaN(fs) == \E k \in 1..Len(fs) : fs[k].num = NaN
\* The arithmetic mean of a list of fractions.
AverageOfFracs(fs) ==
    IF fs = <<>> \/ FracHasNaN(fs) THEN NaNFrac
    ELSE Frac(FracSum(fs).num, FracSum(fs).den * Len(fs))
\* One mean per residue instance of the target type.
PerResidueMeans(s, key) ==
    LET rs == SortedSeq(LipidResidues)
    IN  [j \in 1..Len(rs) |-> Average(ResidueValues(s, key, rs[j]))]

\* C4: the OP_mean written for a label is the average of the per-residue
\* means, and is the average of all the values of the label.
C4_MeanOfMeans ==
    \A s \in Strategies :
        pc[s] = "done" =>
            \A key \in DOMAIN report[s] :
                /\ report[s][key].OP_mean = AverageOfFracs(PerResidueMeans(s, key))
                /\ report[s][key].OP_mean = Average(dic_OP[s][key])

C4_Witness ==
    /\ pc[M] = "done" /\ pc[F] = "done"
    /\ \E key \in DOMAIN report[F] :
          LET ms == PerResidueMeans(F, key)
          IN  /\ Len(dic_OP[F][key]) >= 4
              /\ Len(ms) = 2
              /\ ~FracHasNaN(ms)
              /\ ms[1] # ms[2]
              /\ report[M][key].OP_mean = report[F][key].OP_mean

RECURSIVE LCMDen(_)
LCMDen(fs) ==
    IF fs = <<>> THEN 1
    ELSE LET t == LCMDen(Tail(fs))
         IN  (Head(fs).den * t) \div GCD(Head(fs).den, t)
\* The population standard deviation of a list of fractions, in the unit of
\* their numerators.
StdOfFracs(fs) ==
    IF fs = <<>> \/ FracHasNaN(fs) THEN NaN
    ELSE LET D == LCMDen(fs)
             a == [j \in 1..Len(fs) |-> fs[j].num * (D \div fs[j].den)]
         IN  RDiv(ISqrt(Len(a) * SumSq(a) - Sum(a) * Sum(a)), Len(a) * D)

\* C5: the standard deviation written for a label is the population
\* standard deviation of the per-residue means.
C5_StdOfResidueMeans ==
    \A s \in Strategies :
        pc[s] = "done" =>
            \A key \in DOMAIN report[s] :
                report[s][key].OP_stddev = StdOfFracs(PerResidueMeans(s, key))

\* std / sqrt(n).
StemOf(std, n) ==
    IF std = NaN \/ n = 0 THEN NaN
    ELSE RDiv(std * Scale, ISqrt(n * Scale * Scale))

\* C6: the standard error written for a label is the standard deviation of
\* the per-residue means over the square root of the number of residues.
C6_StemOfResidueMeans ==
    \A s \in Strategies :
        pc[s] = "done" =>
            \A key \in DOMAIN report[s] :
                report[s][key].OP_stem =
                    StemOf(StdOfFracs(PerResidueMeans(s, key)),
                           Cardinality(LipidResidues))

\* The carbon name with its leading letter C turned into H.
LeadingReplaced(name) ==
    <<IF name[1] = "C" THEN "H" ELSE name[1]>> \o Tail(name)

\* C7: the k-th hydrogen built on a carbon is named by the carbon name with
\* only its leading C replaced by H, followed by k; both runs give the same
\* names to the hydrogens of a carbon.
C7_LeadingLetterOnly ==
    /\ \A s \in Strategies :
          \A k \in 1..Len(last_build[s].names) :
              last_build[s].names[k]
                  = LeadingReplaced(last_build[s].carbon) \o <<Str(k)>>
    /\ last_build[M].carbon = last_build[F].carbon =>
          \A k \in 1..Len(last_build[M].names) :
              k <= Len(last_build[F].names) =>
                  last_build[M].names[k] = last_build[F].names[k]

\* The number of hydrogens of each geometry kind.
NbH(kind) ==
    CASE kind = "CH2" -> 2
      [] kind = "CH" -> 1
      [] kind = "CHdoublebond" -> 1
      [] kind = "CH3" -> 3
      [] OTHER -> 0

\* The component of H - atom along the unit normal of the plane of
\* helper2 - atom and helper1 - atom (the cross product taken in that order).
OffPlane(used, H) ==
    LET n == normalize(cross_product(VSub(used[3], used[1]),
                                     VSub(used[2], used[1])))
    IN  RDiv(Dot(n, VSub(H, used[1])), Scale)

\* The float32 ray from the atom of a build to its k-th helper.
RayOf(used, k) == VSub_f32(F32Vec(used[k + 1]), F32Vec(used[1]))

\* vec turned by angle round axis and placed at the bond length from atom.
Turned(vec, axis, angle, atom) ==
    PlaceH(IF IsNaNVec(vec) THEN NaNVec ELSE apply_rotation(vec, axis, angle),
           atom)

\* The order of the hydrogens in the tuple.  For CH2 the first is
\* vec_to_rotate turned by -tetrahedral/2 round rotation_axis (H1) and the
\* second the same vector turned by +tetrahedral/2 (H2).  For CH3 the first
\* is the ray to helper1 turned by the tetrahedral angle round the normal
\* of the helpers (He), the second the direction of the first turned by
\* +2pi/3 round the ray to helper1 (Hr), the third that direction turned by
\* -2pi/3 (Hs).
OrderOf(b) ==
    CASE b.kind = "CH2" ->
            LET fr == CH2Frame(b.used[1], b.used[2], b.used[3])
                half == HalfAngle(TETRAHEDRAL_ANGLE)
            IN  /\ b.Hs[1] = Turned(fr[1], fr[2], NegAngle(half), b.used[1])
                /\ b.Hs[2] = Turned(fr[1], fr[2], half, b.used[1])
      [] b.kind = "CH3" ->
            LET axis == Milli(normalize_f32(RayOf(b.used, 1)))
                v4 == IF IsNaNVec(b.Hs[1]) THEN NaNVec
                      ELSE normalize(VSub(b.Hs[1], b.used[1]))
            IN  /\ b.Hs[1] = CH3HeOfRays(b.used[1], RayOf(b.used, 1),
                                         RayOf(b.used, 2))
                /\ b.Hs[2] = Turned(v4, axis, TwoThirdsPi, b.used[1])
                /\ b.Hs[3] = Turned(v4, axis, NegAngle(TwoThirdsPi),
                                    b.used[1])
      [] OTHER -> TRUE

\* What the two drivers return for the carbon Cname of the residue whose
\* first atom is ix, in frame f.
BothDrivers(f, ix, Cname) ==
    LET u == Unpack(dic_lipids_with_indexes[Cname])
    IN  [fast |-> fast_buildHs_on_1C(dic_lipids_with_indexes, f, Cname, ix),
         slow |-> IF u.err = "none" /\ u.Cname_ix + ix \in 1..NbAtoms
                     /\ universe_woH[u.Cname_ix + ix].name = Cname
                  THEN buildHs_on_1C(u.Cname_ix + ix, f)
                  ELSE Raise("NoSuchAtom")]

\* C8: a driver returns 2 hydrogens for CH2 (H1 then H2), 1 for CH, 1 for
\* CHdoublebond and 3 for CH3 (He, Hr, Hs), and buildHs_on_1C and
\* fast_buildHs_on_1C return tuples of the same length for the same carbon.
C8_TupleLength ==
    /\ \A s \in Strategies :
          last_build[s].kind # "none" =>
              /\ Len(last_build[s].Hs) = NbH(last_build[s].kind)
              /\ OrderOf(last_build[s])
    /\ pc[F] = "loop" =>
          \A k \in 1..Len(FirstLipidAtoms) : \A j \in 1..Len(dic_lipid.keys) :
              LET d == BothDrivers(ts_frame[F], FirstLipidAtoms[k],
                                   dic_lipid.keys[j])
              IN  (d.fast.err = "none" /\ d.slow.err = "none") =>
                      /\ Len(d.fast.Hs) = Len(d.slow.Hs)
                      /\ Len(d.fast.Hs) = NbH(dic_lipid.tup[dic_lipid.keys[j]][1])

C8_Witness ==
    /\ last_build[M].kind = "CHdoublebond" /\ Len(last_build[M].Hs) = 1
    /\ last_build[F].kind = "CH3" /\ Len(last_build[F].Hs) = 3
    /\ ~IsNaNVec(last_build[F].Hs[1])
    /\ last_build[F].Hs[2] # last_build[F].Hs[3]
    /\ pc[F] = "loop"

\* C9: cross_product(A, B) is the cross product of A and B component for
\* component, is the opposite of cross_product(B, A), and is zero for A = B.
C9_CrossProduct ==
    kout.fn = "cross_product" =>
        LET A == kin[1]
            B == kin[2]
            BA == cross_product(B, A)
        IN  /\ kout.val = <<A[2] * B[3] - A[3] * B[2],
                            A[3] * B[1] - A[1] * B[3],
                            A[1] * B[2] - A[2] * B[1]>>
            /\ kout.val = <<-BA[1], -BA[2], -BA[3]>>
            /\ A = B => kout.val = <<0, 0, 0>>

C9_Witness ==
    /\ kout.fn = "cross_product"
    /\ kout.val[1] # 0 /\ kout.val[2] # 0 /\ kout.val[3] # 0

\* C10: calc_OP(C, H) is 0.5 * (3 * dz^2 / |H - C|^2 - 1) to the resolution
\* of the arithmetic, is 1 when H - C is along z, -0.5 when H - C is in the
\* xy-plane, and is unchanged when C and H are moved by the same vector.
C10_CalcOP ==
    (kout.fn = "calc_OP" /\ kin[1] # kin[2]) =>
        LET C == kin[1]
            H == kin[2]
            dx == H[1] - C[1]
            dy == H[2] - C[2]
            dz == H[3] - C[3]
            d2 == dx * dx + dy * dy + dz * dz
        IN  /\ Abs(2 * d2 * kout.val - OPScale * (3 * dz * dz - d2)) <= 4 * d2
            /\ (dx = 0 /\ dy = 0) => kout.val = OPScale
            /\ dz = 0 => 2 * kout.val = -OPScale
            /\ \A T \in GridVec : calc_OP(VAdd(C, T), VAdd(H, T)) = kout.val

C10_Witness ==
    /\ kout.fn = "calc_OP"
    /\ kin[2][3] # kin[1][3]
    /\ kin[2][1] # kin[1][1]
    /\ kin[1] # <<0, 0, 0>>
    /\ kout.val # NaN /\ kout.val # OPScale /\ 2 * kout.val # -OPScale

\* C11: every order parameter recorded in dic_OP, in either run, is a number
\* of the closed interval [-0.5, 1.0]; not-a-number is never recorded.
C11_ValuesInRange ==
    \A s \in Strategies : \A key \in DOMAIN dic_OP[s] :
        \A k \in 1..Len(dic_OP[s][key]) :
            /\ dic_OP[s][key][k] # NaN
            /\ 2 * dic_OP[s][key][k] >= -OPScale
            /\ dic_OP[s][key][k] <= OPScale

\* The largest difference between two vectors, component by component.
MaxDev(a, b) == MaxAbs(VSub(a, b))
\* The resolution to which a rotated unit vector is compared.
RotTol == Scale \div 250

\* C12 as stated: rotating v by t around a non-zero axis and the result by
\* -t around the same axis gives v back, whatever the length of v.
C12_RoundTrip ==
    (/\ kout.fn = "apply_rotation"
     /\ kin[1] # <<0, 0, 0>> /\ kin[2] # <<0, 0, 0>>) =>
        /\ ~IsNaNVec(kout.val)
        /\ MaxDev(kout.val, GridCoor(kin[1])) <= RotTol

\* C12 amended: rotating a non-zero v by t around a non-zero axis and the
\* result by -t around the same axis gives v / |v|, the unit vector along
\* v (v itself only when v has length 1).
C12_RoundTripNormalized ==
    (/\ kout.fn = "apply_rotation"
     /\ kin[1] # <<0, 0, 0>> /\ kin[2] # <<0, 0, 0>>) =>
        /\ ~IsNaNVec(kout.val)
        /\ MaxDev(kout.val, normalize(GridCoor(kin[1]))) <= RotTol

C12_Witness ==
    /\ kout.fn = "apply_rotation"
    /\ cross_product(kin[1], kin[2]) # <<0, 0, 0>>
    /\ Dot(kin[1], kin[2]) # 0
    /\ Dot(GridCoor(kin[1]), GridCoor(kin[1])) > 2 * Scale * Scale
    /\ kout.angle = TETRAHEDRAL_ANGLE
    /\ ~IsNaNVec(kout.val)

\* The helpers are degenerate for the atom: a helper is at the atom, or the
\* atom and its two helpers are on one line (the cross product of the two
\* rays is zero).
Degenerate(used) ==
    cross_product(VSub(used[2], used[1]), VSub(used[3], used[1])) = <<0, 0, 0>>

\* C13: a placement rule given degenerate helpers fails with an error: no
\* driver returns hydrogens for such a geometry, no returned hydrogen has
\* not-a-number coordinates and no not-a-number is appended to dic_OP.
C13_DegenerateFails ==
    \A s \in Strategies :
        /\ last_build[s].kind # "none" =>
              /\ ~Degenerate(last_build[s].used)
              /\ \A k \in 1..Len(last_build[s].Hs) :
                    ~IsNaNVec(last_build[s].Hs[k])
        /\ \A key \in DOMAIN dic_OP[s] : ~HasNaN(dic_OP[s][key])

\* A residue of the target type holds a carbon of the recipe and lacks one
\* of the helpers the recipe declares for it.
MissingHelper ==
    \E r \in LipidResidues : \E j \in 1..Len(dic_lipid.keys) :
        /\ SelName(r, dic_lipid.keys[j]) # 0
        /\ \E h \in 2..Len(dic_lipid.tup[dic_lipid.keys[j]]) :
              SelName(r, dic_lipid.tup[dic_lipid.keys[j]][h]) = 0

\* C14: when a residue of the target type lacks a helper the recipe
\* declares, the run stops with an error, in either strategy and whichever
\* residue it is: no run over such a topology ends normally.
C14_MissingHelperStops ==
    \A s \in Strategies : pc[s] = "done" => ~MissingHelper

\* C15: calc_angle either raises or returns an angle of [0, pi]; it never
\* returns not-a-number, a ray of length zero included.
C15_AngleOrError ==
    kout.fn = "calc_angle" =>
        \/ kout.val.err # "none"
        \/ /\ ~IsNaNAngle(kout.val.angle)
           /\ kout.val.angle.cos >= -Scale /\ kout.val.angle.cos <= Scale
           /\ kout.val.angle.sin >= 0

\* The bounds a frame range may be asked with: the times of the frames
\* (frame f is at time f) and one step before and after them.
RangeBounds == 0..(n_frames + 1)
ValidRange(begin, end) == begin <= end /\ begin >= 1 /\ end <= n_frames
\* The run s has built hydrogens or recorded an order parameter.
HasProcessed(s) ==
    \/ last_build[s].kind # "none"
    \/ \E key \in DOMAIN dic_OP[s] : dic_OP[s][key] # <<>>

\* C16: whatever frame range (begin, end) is asked for, a range with
\* begin > end or a bound outside the trajectory is rejected before anything
\* is processed, and for a valid range only the frames of [begin, end] are
\* visited.  The runs take no frame range: they behave the same for all.
C16_FrameRangeValidated ==
    \A begin \in RangeBounds : \A end \in RangeBounds : \A s \in Strategies :
        /\ ~ValidRange(begin, end) => (~HasProcessed(s) /\ pc[s] # "done")
        /\ (ValidRange(begin, end) /\ pc[s] = "loop") =>
              (ts_frame[s] >= begin /\ ts_frame[s] <= end)

\* Some hydrogen that the recipe builds on one of its carbons has no
\* (carbon, hydrogen) label in the definition file.
IncompleteRecipe ==
    \E j \in 1..Len(dic_lipid.keys) :
        \E k \in 1..NbH(dic_lipid.tup[dic_lipid.keys[j]][1]) :
            <<dic_lipid.keys[j], HName(dic_lipid.keys[j], k)>>
                \notin Keys(dic_atname2genericname)

\* C17: with trajectory output requested and a recipe hydrogen missing from
\* the definition file, the run is stopped before any work: it builds no
\* hydrogen, writes no frame, records no order parameter and does not end
\* normally.
C17_EagerRecipeCheck ==
    IncompleteRecipe =>
        /\ last_build[M].kind = "none"
        /\ newxtc = <<>>
        /\ \A key \in DOMAIN dic_OP[M] : dic_OP[M][key] = <<>>
        /\ pc[M] # "done"

\* The resolution to which a length is compared, in coordinate units.
LengthTol == Scale \div 250

\* The helpers of the build b are not degenerate.  With two helpers: the
\* atom and its helpers are not on one line.  With the three helpers of a
\* CH: no helper is at the atom and two of the rays to the helpers are at
\* most a right angle apart (three unit vectors that add up to zero are
\* 120 degrees from one another).
NonDegenerate(b) ==
    IF b.kind = "CH"
    THEN /\ \A k \in 2..4 : b.used[k] # b.used[1]
         /\ \E j, k \in 2..4 :
               /\ j < k
               /\ Dot(VSub(b.used[j], b.used[1]),
                      VSub(b.used[k], b.used[1])) >= 0
    ELSE ~Degenerate(b.used)

\* C18: for every non-degenerate input, every hydrogen a placement rule
\* returns has coordinates and is at the bond length 1.09 from the central
\* atom.
C18_BondLength ==
    \A s \in Strategies :
        (last_build[s].kind # "none" /\ NonDegenerate(last_build[s])) =>
            \A k \in 1..Len(last_build[s].Hs) :
                /\ ~IsNaNVec(last_build[s].Hs[k])
                /\ Abs(norm(VSub(last_build[s].Hs[k], last_build[s].used[1]))
                       - LENGTH_CH_BOND) <= LengthTol

\* The resolution to which a cosine is compared, in 1/Scale.
CosTol == Scale \div 200
\* The resolution to which two positions are compared, in coordinate units.
PosTol == Scale \div 200

\* The hydrogens get_CH2 gives for the atom of the last carbon built by
\* run s with helper1 and helper2 exchanged.
SwappedCH2(s) ==
    get_CH2(last_build[s].used[1], last_build[s].used[3],
            last_build[s].used[2])
\* The angle H1-atom-H2 is the tetrahedral angle.
TetrahedralHH(s) ==
    LET a == calc_angle(last_build[s].Hs[1], last_build[s].used[1],
                        last_build[s].Hs[2])
    IN  /\ a.err = "none"
        /\ Abs(a.angle.cos - TETRAHEDRAL_ANGLE.cos) <= CosTol
        /\ a.angle.sin > 0
\* The positions p and q are the two positions of the pair Hs, in either
\* order.
SamePositions(p, q, Hs) ==
    \/ MaxDev(p, Hs[1]) <= PosTol /\ MaxDev(q, Hs[2]) <= PosTol
    \/ MaxDev(p, Hs[2]) <= PosTol /\ MaxDev(q, Hs[1]) <= PosTol

\* C19: for every non-degenerate CH2 input the two hydrogens of get_CH2
\* have coordinates, the angle H1-atom-H2 is the tetrahedral angle, and
\* get_CH2 with helper1 and helper2 exchanged returns the same two
\* positions.
C19_TetrahedralSamePair ==
    \A s \in Strategies :
        (last_build[s].kind = "CH2" /\ ~Degenerate(last_build[s].used)) =>
            /\ ~IsNaNVec(last_build[s].Hs[1])
            /\ ~IsNaNVec(last_build[s].Hs[2])
            /\ TetrahedralHH(s)
            /\ SamePositions(SwappedCH2(s)[1], SwappedCH2(s)[2],
                             last_build[s].Hs)

\* The resolution to which the distance to a plane is compared.
InPlaneTol == Scale \div 200

\* C20: for every non-degenerate input the hydrogen of a double-bond CH
\* has coordinates and lies in the plane through helper1, the atom and
\* helper2: the mixed product of helper1 - atom, helper2 - atom and
\* H - atom, taken with the unit normal of the plane, is zero.
C20_DoubleBondInPlane ==
    \A s \in Strategies :
        (/\ last_build[s].kind = "CHdoublebond"
         /\ ~Degenerate(last_build[s].used)) =>
            /\ ~IsNaNVec(last_build[s].Hs[1])
            /\ Abs(OffPlane(last_build[s].used, last_build[s].Hs[1]))
                  <= InPlaneTol


(***************************************************************************)
(* The atom list of the materializing run.                                 *)
(***************************************************************************)
\* Whether hydrogens are to be built on the atom of index i.
IsBuilt(i) ==
    /\ universe_woH[i].name \in DOMAIN dic_lipid.tup
    /\ universe_woH[i].resname = dic_lipid.resname

\* The atom list the claim describes, from the atom of index i on: every
\* original atom in its order, each carbon of the recipe followed by its
\* hydrogens in index order with the residue name and number of the carbon.
RECURSIVE ExpectedList(_)
ExpectedList(i) ==
    IF i > NbAtoms THEN <<>>
    ELSE <<[atname |-> universe_woH[i].name,
            resname |-> universe_woH[i].resname,
            resnum |-> universe_woH[i].resnum]>>
         \o [k \in 1..(IF IsBuilt(i) THEN NbH(dic_lipid.tup[universe_woH[i].name][1])
                       ELSE 0) |->
               [atname |-> HName(universe_woH[i].name, k),
                resname |-> universe_woH[i].resname,
                resnum |-> universe_woH[i].resnum]]
         \o ExpectedList(i + 1)

\* The row (record number minus 1) the atom of index i has in that list.
RowOf(i) == Len(ExpectedList(1)) - Len(ExpectedList(i))

\* The dataframe-building pass is over.
Prepared == pc[M] \in {"loop", "report", "done"}
            \/ (pc[M] = "prepare" /\ atom_ix > NbAtoms)

\* The dataframe is complete and the per-frame pass has gone through the
\* atoms before atom_ix in the current frame.
InPass == pc[M] = "loop" /\ atom_ix > 1

\* C21: in the materializing run the record numbers are consecutive from 1;
\* once the dataframe is built it holds every original atom in its order,
\* the hydrogens of a carbon right after it, in index order, with its
\* residue name and number; and in every frame the per-frame pass writes
\* each atom and each hydrogen at the row (record number minus 1) the
\* dataframe gave it.
C21_AtomList ==
    /\ \A k \in 1..Len(newrows) : newrows[k].atnum = k
    /\ Prepared =>
          [k \in 1..Len(newrows) |-> [atname |-> newrows[k].atname,
                                      resname |-> newrows[k].resname,
                                      resnum |-> newrows[k].resnum]]
             = ExpectedList(1)
    /\ InPass =>
          /\ row_index_coor_array = RowOf(atom_ix)
          /\ Len(universe_wH) = Len(newrows)
          /\ \A i \in 1..(atom_ix - 1) :
                /\ newrows[RowOf(i) + 1].atname = universe_woH[i].name
                /\ newrows[RowOf(i) + 1].atnum - 1 = RowOf(i)
                /\ universe_wH[RowOf(i) + 1] = Position(ts_frame[M], i)
                /\ IsBuilt(i) =>
                      \A k \in 1..Len(buildHs_on_1C(i, ts_frame[M]).Hs) :
                         /\ newrows[RowOf(i) + 1 + k].atname
                               = HName(universe_woH[i].name, k)
                         /\ universe_wH[RowOf(i) + 1 + k]
                               = buildHs_on_1C(i, ts_frame[M]).Hs[k]

\* A second frame has been gone through entirely, on a system of two
\* residues whose carbons carry two and three hydrogens.
C21_Witness ==
    /\ pc[M] = "loop"
    /\ ts_frame[M] = 2
    /\ atom_ix > NbAtoms
    /\ \E i \in 1..NbAtoms : \E j \in 1..NbAtoms :
          /\ IsBuilt(i) /\ IsBuilt(j)
          /\ universe_woH[i].resindex # universe_woH[j].resindex
          /\ RowOf(j) > RowOf(i) + 1
    /\ row_index_coor_array = Len(newrows)
    /\ Len(newrows) > NbAtoms


(***************************************************************************)
(* The arity of a recipe entry.                                            *)
(***************************************************************************)
\* The entry of carbon Cname has not the number of helpers of its kind:
\* 3 for CH, 2 for CH2, CH3 and CHdoublebond.
WrongArity(Cname) ==
    Len(dic_lipid.tup[Cname]) - 1
       # (IF dic_lipid.tup[Cname][1] = "CH" THEN 3 ELSE 2)

\* C22: a carbon whose recipe entry has not the arity of its kind gets no
\* hydrogen and no order-parameter value, in either strategy.
C22_RightArityOnly ==
    \A s \in Strategies : \A j \in 1..Len(dic_lipid.keys) :
       WrongArity(dic_lipid.keys[j]) =>
          /\ last_build[s].carbon # dic_lipid.keys[j]
          /\ \A key \in DOMAIN dic_OP[s] :
                key[1] = dic_lipid.keys[j] => dic_OP[s][key] = <<>>
          /\ \A k \in 1..Len(newrows) :
                newrows[k].atname # HName(dic_lipid.keys[j], 1)


(***************************************************************************)
(* The offset template of the statistics-only run.                         *)
(***************************************************************************)
\* The template has been built by MakeDic.
HasTemplate == pc[F] \in {"loop", "report", "done"}
               \/ (pc[F] = "error" /\ dic_lipids_with_indexes # <<>>)

\* The atom at offset off from the atom of index ix is the atom named name
\* of the residue of ix.
Addresses(ix, off, name) ==
    /\ ix + off \in 1..NbAtoms
    /\ universe_woH[ix + off].name = name
    /\ universe_woH[ix + off].resindex = universe_woH[ix].resindex

\* The offsets of the entry t of carbon Cname (a recipe entry of n helper
\* names followed by the offsets) address, from the atom of index ix, the
\* carbon and the helpers the entry names.
EntryAddresses(ix, Cname, t, n) ==
    /\ Len(t) > n + 1
    /\ Addresses(ix, t[n + 2], Cname)
    /\ \A h \in 1..(Len(t) - n - 2) : Addresses(ix, t[n + 2 + h], t[1 + h])

\* C23: once built, the template of the statistics-only run is the one
\* computed from the first residue and stays so during the frames; the
\* recipe is left as it was given; and for every residue of the target
\* type, first-atom index + offset is the atom of that residue that has
\* the carbon or helper name of the recipe.
C23_TemplateAddresses ==
    HasTemplate =>
       /\ dic_lipids_with_indexes = make_dic_lipids_with_indexes.dic
       /\ \E sys \in Systems : dic_lipid = sys.recipe
       /\ DOMAIN dic_lipids_with_indexes = DOMAIN dic_lipid.tup
       /\ \A k \in 1..Len(FirstLipidAtoms) : \A j \in 1..Len(dic_lipid.keys) :
             EntryAddresses(FirstLipidAtoms[k], dic_lipid.keys[j],
                            dic_lipids_with_indexes[dic_lipid.keys[j]],
                            Len(dic_lipid.tup[dic_lipid.keys[j]]) - 1)


(***************************************************************************)
(* A recipe entry of unknown geometry kind.                                *)
(***************************************************************************)
Kinds == {"CH2", "CH", "CHdoublebond", "CH3"}

\* The positions, in the order of the recipe, of the entries whose kind is
\* none of the four.
WrongKinds == {j \in 1..Len(dic_lipid.keys) :
                 dic_lipid.tup[dic_lipid.keys[j]][1] \notin Kinds}

\* The position in the recipe of the carbon of a label.
KeyPos(key) == SetMin({j \in 1..Len(dic_lipid.keys) : dic_lipid.keys[j] = key[1]}
                      \cup {Len(dic_lipid.keys) + 1})

\* C24: with a recipe entry of a kind other than CH2, CH, CHdoublebond and
\* CH3 (on residues that all hold the carbons and the helpers of the
\* recipe), each strategy stops with UserWarning, no hydrogen is returned
\* for that carbon, and no order parameter is appended for it nor for
\* anything that would come after it: the materializing run, which fails
\* while preparing the atom list, appends nothing, and the statistics-only
\* run appends at most the values of the carbons that precede it in the
\* first residue of the first frame.
C24_WrongKindStops ==
    WrongKinds # {} =>
       \A s \in Strategies :
          /\ raised[s] \in {"none", "UserWarning"}
          /\ Ended(s) => raised[s] = "UserWarning"
          /\ \A j \in WrongKinds : last_build[s].carbon # dic_lipid.keys[j]
          /\ \A key \in DOMAIN dic_OP[s] :
                IF s = F /\ KeyPos(key) < SetMin(WrongKinds)
                THEN /\ Len(dic_OP[s][key]) <= 1
                     /\ \A m \in 1..Len(op_residue[s][key]) :
                           op_residue[s][key][m] = SetMin(LipidResidues)
                ELSE dic_OP[s][key] = <<>>


(***************************************************************************)
(* The frames of the materializing run.                                    *)
(***************************************************************************)
\* The number of values one pass over the atoms 1..upto appends under a
\* label: one for each carbon of the recipe that bears the hydrogen.
NbAppended(key, upto) ==
    Cardinality({i \in 1..upto :
                   /\ IsBuilt(i)
                   /\ universe_woH[i].name = key[1]
                   /\ \E k \in 1..NbH(dic_lipid.tup[key[1]][1]) :
                         HName(key[1], k) = key[2]})

\* A position as the pdb file holds it when pdb is TRUE, as it is otherwise.
Held(v, pdb) == IF pdb THEN <<PdbCoor(v[1]), PdbCoor(v[2]), PdbCoor(v[3])>> ELSE v

\* The rows of frame from row + 1 on hold an atom at pos and its hydrogens.
AtomHeld(frame, row, pos, Hs, pdb) ==
    /\ frame[row + 1] = Held(pos, pdb)
    /\ \A k \in 1..Len(Hs) : frame[row + 1 + k] = Held(Hs[k], pdb)

\* The frame of the output trajectory at position n holds the atoms and the
\* hydrogens of the input frame f, as the pdb file holds them when pdb is
\* TRUE.
HoldsFrame(n, f, pdb) ==
    /\ Len(newxtc[n]) = Len(newrows)
    /\ \A i \in 1..NbAtoms :
          AtomHeld(newxtc[n], RowOf(i), Position(f, i),
                   IF IsBuilt(i) THEN buildHs_on_1C(i, f).Hs ELSE <<>>, pdb)

\* The materializing run has gone through its frames without an error.
MComplete == pc[M] \in {"report", "done"} /\ raised[M] = "none"

\* C25: in a materializing run nothing is appended to dic_OP before the
\* frame loop; in the loop each frame appends one value for each hydrogen
\* of each carbon, the first frame included; the output trajectory holds
\* the first frame (with the hydrogens built before the loop) followed by
\* one frame for each input frame in order (with the hydrogens built in the
\* loop): N+1 frames at the end, the first input frame twice.
C25_FramesWritten ==
    /\ pc[M] = "prepare" =>
          /\ newxtc = <<>>
          /\ \A key \in DOMAIN dic_OP[M] : dic_OP[M][key] = <<>>
    /\ pc[M] = "loop" =>
          /\ Len(newxtc) = ts_frame[M]
          /\ \A key \in DOMAIN dic_OP[M] :
                Len(dic_OP[M][key])
                   = (ts_frame[M] - 1) * NbAppended(key, NbAtoms)
                     + NbAppended(key, atom_ix - 1)
    /\ MComplete =>
          /\ Len(newxtc) = n_frames + 1
          /\ \A key \in DOMAIN dic_OP[M] :
                Len(dic_OP[M][key]) = n_frames * NbAppended(key, NbAtoms)
    /\ pc[M] \in {"loop", "report", "done"} =>
          /\ HoldsFrame(1, 1, TRUE)
          /\ \A f \in 1..(Len(newxtc) - 1) : HoldsFrame(f + 1, f, FALSE)

\* A run over two frames has ended: three frames were written, the second
\* input frame differs from the first and each label holds two values for
\* each residue.
C25_Witness ==
    /\ MComplete
    /\ n_frames = 2
    /\ Len(newxtc) = 3
    /\ newxtc[3] # newxtc[2]
    /\ Len(newxtc[1]) > NbAtoms
    /\ \E key \in DOMAIN dic_OP[M] :
          /\ NbAppended(key, NbAtoms) > 0
          /\ Len(dic_OP[M][key]) = 2 * NbAppended(key, NbAtoms)

====
